---- MODULE Spec2Model ----
(***************************************************************************)
(* Verification model of the modular megafauna model: the herbivore agent  *)
(* (HerbivoreBase / HerbivoreCohort), the establishment cadence of         *)
(* Fauna::World, and the daily drivers.                                    *)
(*                                                                         *)
(* Numbers.  The program computes with `double`.  The model computes with  *)
(* integers in fixed point: a fraction f in [0,1] is stored as f * Scale   *)
(* (permille), a mass in grams, an energy in kJ, a density in 1/1000       *)
(* individuals per km2.  Every division rounds down (\div).                *)
(***************************************************************************)
EXTENDS Integers, Sequences, FiniteSets, TLC

Scale == 1000

\* The value of F on x, with x evaluated once.
Bind(x, F(_)) == CHOOSE y \in {F(v) : v \in {x}} : TRUE

Min(a, b) == IF a <= b THEN a ELSE b
Max(a, b) == IF a >= b THEN a ELSE b

RECURSIVE SumSeq(_)
SumSeq(s) == IF s = << >> THEN 0 ELSE Head(s) + SumSeq(Tail(s))

(***************************************************************************)
(* Herbivore functional type (Hft): the parameters HerbivoreBase reads.    *)
(***************************************************************************)
MortalityFactors ==
  {"MF_BACKGROUND", "MF_LIFESPAN", "MF_STARVATION_ILLIUS_OCONNOR_2000",
   "MF_STARVATION_THRESHOLD"}

ReproductionModels ==
  {"RM_ILLIUS_OCONNOR_2000", "RM_CONST_MAX", "RM_LINEAR", "RM_NONE"}

\* One valid HFT.  Masses in g, fractions in permille, ages in years.
\* The expenditure component is the allometric one with exponent 1
\* (EC_ALLOMETRIC), the only component whose value fixed point represents
\* exactly (coefficient in permille kJ per g and day); no foraging limit is
\* selected.
DefaultHft ==
  [ name                     |-> "hft0",
    bodymass_birth           |-> 4000,
    bodymass_male            |-> 50000,
    bodymass_female          |-> 40000,
    bodyfat_birth            |-> 200,
    bodyfat_max              |-> 300,
    bodyfat_max_daily_gain   |-> 50,
    maturity_age_phys_male   |-> 2,
    maturity_age_phys_female |-> 2,
    maturity_age_sex         |-> 1,
    lifespan                 |-> 2,
    mortality_factors        |-> {"MF_LIFESPAN", "MF_STARVATION_THRESHOLD"},
    mortality                |-> 100,
    mortality_juvenile       |-> 300,
    bodyfat_deviation        |-> 125,
    shift_body_condition_for_starvation |-> TRUE,
    minimum_density_threshold |-> 10,
    reproduction_model       |-> "RM_CONST_MAX",
    reproduction_max         |-> 900,
    breeding_season_start    |-> 100,
    breeding_season_length   |-> 90,
    gestation_months         |-> 1,
    expenditure_coefficient  |-> 2500,
    digestion_type           |-> "DT_RUMINANT",
    net_energy_model         |-> "NE_DEFAULT",
    establishment_density    |-> 4000,
    establishment_age_years  |-> 1 ]

(***************************************************************************)
(* Forage values: one value per edible forage type.                        *)
(***************************************************************************)
FORAGE_TYPES == {"grass"}

ForageValue(v) == [ft \in FORAGE_TYPES |-> v]

RECURSIVE SumOver(_, _)
SumOver(f, S) ==
  IF S = {} THEN 0
  ELSE LET x == CHOOSE y \in S : TRUE IN f[x] + SumOver(f, S \ {x})

ForageSum(fv) == SumOver(fv, FORAGE_TYPES)

ME_COEFFICIENT_GRASS == 15
DIGESTION_EFFICIENCY_HINDGUTS == 930

\* GetNetEnergyContentDefault: NE = ME * (0.019 * ME + 0.503) * e, in kJ/kg
\* (ME in kJ/kg is digestibility[permille] * 15).
GetNetEnergyContentDefault(digestion_type, forage_type, digestibility) ==
  LET ME == digestibility * ME_COEFFICIENT_GRASS
      e  == IF digestion_type = "DT_RUMINANT" THEN Scale
            ELSE DIGESTION_EFFICIENCY_HINDGUTS
      ne == (ME * ((19 * ME) \div Scale + 503)) \div Scale
  IN  IF forage_type = "inedible" THEN 0 ELSE (ne * e) \div Scale

(***************************************************************************)
(* FatmassEnergyBudget.                                                    *)
(***************************************************************************)
FACTOR_CATABOLISM == 31
FACTOR_ANABOLISM == 55

\* Constructor: the validity check of the initial and the maximum fat mass.
FatmassEnergyBudget_valid(initial_fatmass, maximum_fatmass) ==
  /\ initial_fatmass >= 0
  /\ maximum_fatmass > 0
  /\ initial_fatmass <= maximum_fatmass

FatmassEnergyBudget(initial_fatmass, maximum_fatmass) ==
  [ fatmass          |-> initial_fatmass,
    max_fatmass      |-> maximum_fatmass,
    energy_needs     |-> 0,
    max_fatmass_gain |-> 0 ]

\* max_anabolism_today = max_daily_gain * energy per kg fat
get_max_anabolism_per_day(b) == b.max_fatmass_gain * FACTOR_ANABOLISM

\* set_max_fatmass fails if the current fat mass exceeds the new maximum.
set_max_fatmass_fails(b, max_fatmass, max_gain) ==
  \/ b.fatmass > max_fatmass
  \/ max_fatmass <= 0
  \/ max_gain < 0

set_max_fatmass(b, max_fatmass, max_gain) ==
  [b EXCEPT !.max_fatmass = max_fatmass, !.max_fatmass_gain = max_gain]

add_energy_needs(b, energy) == [b EXCEPT !.energy_needs = @ + energy]

\* Fat covers the needs at FACTOR_CATABOLISM kJ per g, clamped to the fat
\* that is there.
catabolize_fat(b) ==
  LET wanted == (b.energy_needs + FACTOR_CATABOLISM - 1) \div FACTOR_CATABOLISM
      burned == Min(wanted, b.fatmass)
  IN  [b EXCEPT !.fatmass = @ - burned,
                !.energy_needs = Max(0, @ - burned * FACTOR_CATABOLISM)]

\* Intake first covers the needs; the surplus becomes fat, capped by the daily
\* anabolism and by the maximum fat mass.
metabolize_energy(b, energy) ==
  LET surplus == Max(0, energy - b.energy_needs)
      usable  == Min(surplus, get_max_anabolism_per_day(b))
      gain    == usable \div FACTOR_ANABOLISM
  IN  [b EXCEPT !.energy_needs = Max(0, @ - energy),
                !.fatmass = Min(b.max_fatmass, @ + gain)]

force_body_condition_fails(b, body_condition) ==
  body_condition < 0 \/ body_condition > Scale

force_body_condition(b, body_condition) ==
  [b EXCEPT !.fatmass = (body_condition * b.max_fatmass) \div Scale]

\* Density-weighted mean of all state variables.
FatmassEnergyBudget_merge(b, other, this_weight, other_weight) ==
  LET w == this_weight + other_weight
      avg(x, y) == (x * this_weight + y * other_weight) \div w
  IN  [ fatmass          |-> avg(b.fatmass, other.fatmass),
        max_fatmass      |-> avg(b.max_fatmass, other.max_fatmass),
        energy_needs     |-> avg(b.energy_needs, other.energy_needs),
        max_fatmass_gain |-> avg(b.max_fatmass_gain, other.max_fatmass_gain) ]

(***************************************************************************)
(* NitrogenInHerbivore: ingested, bound and excreted nitrogen (mg/km2).    *)
(***************************************************************************)
NitrogenInHerbivore == [ingested |-> 0, bound |-> 0, excreta |-> 0]

N_CONTENT_IN_TISSUE == 30

Nitrogen_ingest(n, eaten) == [n EXCEPT !.ingested = @ + eaten]

\* digest_today: what the body tissue (massdens, g/km2) cannot bind moves on
\* to the excreta.
Nitrogen_digest_today(n, massdens) ==
  LET total  == n.ingested + n.bound
      target == (massdens * N_CONTENT_IN_TISSUE) \div (Scale * Scale)
      bound  == Min(total, target)
  IN  [ingested |-> 0, bound |-> bound, excreta |-> n.excreta + (total - bound)]

Nitrogen_get_unavailable(n) == n.ingested + n.bound

\* add_value that always appends (no overwriting in circular order).
PeriodAverage_add_value_appending(p, v) ==
  [p EXCEPT !.values = Append(@, v),
            !.current_index = (p.current_index + 1) % p.count]

PeriodAverage_add_value(p, v) ==
  LET vals == IF p.current_index < Len(p.values)
              THEN [p.values EXCEPT ![p.current_index + 1] = v]
              ELSE Append(p.values, v)
  IN  [p EXCEPT !.values = vals,
                !.current_index = (p.current_index + 1) % p.count]

PeriodAverage_get_average(p) == SumSeq(p.values) \div Len(p.values)

PeriodAverage(count) == [count |-> count, values |-> << >>, current_index |-> 0]

\* The constructor with its check of `count`: [exc, p].
PeriodAverage_construct(count) ==
  IF count <= 0
  THEN [exc |-> "invalid_argument", p |-> PeriodAverage(0)]
  ELSE [exc |-> "none", p |-> PeriodAverage(count)]

\* get_average() with its check for an empty buffer: [exc, average].
PeriodAverage_get_average_checked(p) ==
  IF p.values = << >>
  THEN [exc |-> "logic_error", average |-> << >>]
  ELSE [exc |-> "none", average |-> <<PeriodAverage_get_average(p)>>]

(***************************************************************************)
(* Mortality and reproduction models.                                      *)
(***************************************************************************)
DaysPerYear == 365

\* Annual rate to daily rate (first-order conversion).
AnnualToDailyRate(annual) ==
  IF annual >= Scale THEN Scale ELSE annual \div DaysPerYear

GetBackgroundMortality(mortality_juvenile, mortality_adult, age_days) ==
  IF age_days < DaysPerYear THEN AnnualToDailyRate(mortality_juvenile)
  ELSE AnnualToDailyRate(mortality_adult)

GetSimpleLifespanMortality(lifespan_years, age_days) ==
  IF age_days >= lifespan_years * DaysPerYear THEN Scale ELSE 0

MIN_BODYFAT_THRESHOLD == 2

GetStarvationMortalityThreshold(bodyfat) ==
  IF bodyfat < MIN_BODYFAT_THRESHOLD THEN Scale ELSE 0

\* Cumulative standard normal distribution at -z, z given in tenths, in
\* steps of half a standard deviation.
NormalTail(z10) ==
  IF z10 < 5 THEN 500
  ELSE IF z10 < 10 THEN 309
  ELSE IF z10 < 15 THEN 159
  ELSE IF z10 < 20 THEN 67
  ELSE IF z10 < 25 THEN 23
  ELSE IF z10 < 30 THEN 6
  ELSE IF z10 < 35 THEN 1
  ELSE 0

\* GetStarvationIlliusOConnor2000: the share of the cohort whose body
\* condition lies below zero, and the mean body condition of the survivors.
StarvationIlliusOConnor2000_mortality(bodyfat_deviation, body_condition) ==
  IF bodyfat_deviation = 0
  THEN (IF body_condition <= 0 THEN Scale ELSE 0)
  ELSE NormalTail((body_condition * 10) \div bodyfat_deviation)

StarvationIlliusOConnor2000_new_condition(bodyfat_deviation, shift, body_condition) ==
  LET dead == StarvationIlliusOConnor2000_mortality(bodyfat_deviation, body_condition)
  IN  IF shift /\ dead < Scale
      THEN Min(Scale, (body_condition * Scale) \div (Scale - dead))
      ELSE body_condition

\* A season that ends with the year.
BreedingSeason_is_in_season_no_wrap(start, length, day) ==
  day >= start /\ day < start + length

\* BreedingSeason(start, length): handles the wrap around the end of the year.
BreedingSeason_is_in_season(start, length, day) ==
  LET last == start + length
  IN  \/ (day >= start /\ day < last)
      \/ (last > DaysPerYear /\ day < last - DaysPerYear)

BreedingSeason_annual_to_daily(length, annual) == annual \div length

\* 1 / (1 + exp(-15 (C - 0.3))) in permille, in steps of 0.1 of C.
Logistic15(body_condition) ==
  LET k == body_condition \div 100
  IN  IF k <= 0 THEN 11
      ELSE IF k = 1 THEN 47
      ELSE IF k = 2 THEN 182
      ELSE IF k = 3 THEN 500
      ELSE IF k = 4 THEN 818
      ELSE IF k = 5 THEN 953
      ELSE IF k = 6 THEN 989
      ELSE IF k = 7 THEN 997
      ELSE 1000

ReprIlliusOconnor2000_get_offspring_density(hft, day, body_condition) ==
  IF ~BreedingSeason_is_in_season(hft.breeding_season_start,
                                  hft.breeding_season_length, day)
  THEN 0
  ELSE BreedingSeason_annual_to_daily(hft.breeding_season_length,
         (hft.reproduction_max * Logistic15(body_condition)) \div Scale)

ReproductionConstMax_get_offspring_density(hft, day) ==
  IF ~BreedingSeason_is_in_season(hft.breeding_season_start,
                                  hft.breeding_season_length, day)
  THEN 0
  ELSE BreedingSeason_annual_to_daily(hft.breeding_season_length,
                                      hft.reproduction_max)

ReproductionLinear_get_offspring_density(hft, day, body_condition) ==
  IF ~BreedingSeason_is_in_season(hft.breeding_season_start,
                                  hft.breeding_season_length, day)
  THEN 0
  ELSE BreedingSeason_annual_to_daily(hft.breeding_season_length,
         (hft.reproduction_max * body_condition) \div Scale)

(***************************************************************************)
(* HerbivoreBase: state and getters.                                       *)
(***************************************************************************)
\* Output::HerbivoreData after reset().
HerbivoreData ==
  [ age_years              |-> 0,
    bodyfat                |-> 0,
    bound_nitrogen         |-> 0,
    inddens                |-> 0,
    massdens               |-> 0,
    expenditure            |-> 0,
    offspring              |-> 0,
    eaten_forage_per_ind   |-> ForageValue(0),
    energy_intake_per_ind  |-> ForageValue(0),
    eaten_nitrogen_per_ind |-> 0,
    energy_content         |-> ForageValue(0),
    mortality              |-> [f \in {} |-> 0] ]

\* GetForageDemands helper object: the day it was prepared for and what is
\* left of the intake computed for that day [g/ind].
GetForageDemands ==
  [today |-> -1, energy_content |-> ForageValue(0), max_intake |-> ForageValue(0)]

get_age_days(h) == h.age_days

\* get_age_years() >= years, for whole years.
age_years_at_least(h, years) == h.age_days >= years * DaysPerYear

get_ind_per_km2(h) == h.ind_per_km2

is_dead(h) == h.ind_per_km2 < h.hft.minimum_density_threshold

get_bodymass_adult(h) ==
  IF h.sex = "SEX_MALE" THEN h.hft.bodymass_male ELSE h.hft.bodymass_female

potential_bodymass(hft, sex, age_days) ==
  LET maturity_age == IF sex = "SEX_MALE" THEN hft.maturity_age_phys_male
                      ELSE hft.maturity_age_phys_female
      adult == IF sex = "SEX_MALE" THEN hft.bodymass_male
               ELSE hft.bodymass_female
      birth_leanmass == (hft.bodymass_birth * (Scale - hft.bodyfat_birth)) \div Scale
      birth_potmass  == (birth_leanmass * Scale) \div (Scale - hft.bodyfat_max)
      difference     == adult - birth_potmass
  IN  IF age_days >= maturity_age * DaysPerYear
      THEN adult
      ELSE birth_potmass + (age_days * difference) \div (maturity_age * DaysPerYear)

get_potential_bodymass(h) == potential_bodymass(h.hft, h.sex, h.age_days)

max_fatmass_at(hft, sex, age_days) ==
  (potential_bodymass(hft, sex, age_days) * hft.bodyfat_max) \div Scale

\* The maximum fat mass of the adult body, whatever the age.
get_max_fatmass_adult(h) == (get_bodymass_adult(h) * h.hft.bodyfat_max) \div Scale

get_max_fatmass(h) == max_fatmass_at(h.hft, h.sex, h.age_days)

get_lean_bodymass(h) ==
  (get_potential_bodymass(h) * (Scale - h.hft.bodyfat_max)) \div Scale

get_fatmass(h) == h.energy_budget.fatmass

get_bodymass(h) == h.energy_budget.fatmass + get_lean_bodymass(h)

get_bodyfat(h) == (h.energy_budget.fatmass * Scale) \div get_bodymass(h)

get_kg_per_km2(h) == (get_bodymass(h) * h.ind_per_km2) \div Scale

get_net_energy_content(h, digestibility) ==
  [ft \in FORAGE_TYPES |->
     GetNetEnergyContentDefault(h.hft.digestion_type, ft, digestibility[ft])]

get_todays_expenditure(h) ==
  (h.hft.expenditure_coefficient * get_bodymass(h)) \div Scale

(***************************************************************************)
(* Constructors.  A result is [exc, h]: exc = "none" and the new object,   *)
(* or the exception thrown and no object.                                  *)
(***************************************************************************)
NoHerbivore ==
  [ hft |-> DefaultHft, sex |-> "SEX_MALE", age_days |-> 0, today |-> -1,
    ind_per_km2 |-> 0,
    energy_budget |-> FatmassEnergyBudget(0, 1),
    nitrogen |-> NitrogenInHerbivore,
    body_condition_gestation |-> PeriodAverage(1),
    environment |-> << >>,
    current_output |-> HerbivoreData,
    forage_demands |-> GetForageDemands ]

NewHerbivore(hft, sex, age_days, today, fatmass, ind_per_km2) ==
  [ hft |-> hft, sex |-> sex, age_days |-> age_days, today |-> today,
    ind_per_km2 |-> ind_per_km2,
    energy_budget |-> FatmassEnergyBudget(fatmass,
                                          max_fatmass_at(hft, sex, age_days)),
    nitrogen |-> NitrogenInHerbivore,
    body_condition_gestation |-> PeriodAverage(hft.gestation_months * 30),
    environment |-> << >>,
    current_output |-> HerbivoreData,
    forage_demands |-> GetForageDemands ]

\* The establishment constructor without the test of the age against the
\* lifespan.
HerbivoreBase_establish_any_age(age_days, body_condition, hft, sex) ==
  LET maxfat == max_fatmass_at(hft, sex, age_days)
      fat    == (body_condition * maxfat) \div Scale
  IN  IF hft.gestation_months * 30 <= 0 THEN [exc |-> "invalid_argument", h |-> NoHerbivore]
      ELSE IF age_days = 0 THEN [exc |-> "invalid_argument", h |-> NoHerbivore]
      ELSE IF age_days < 0 THEN [exc |-> "invalid_argument", h |-> NoHerbivore]
      ELSE IF body_condition > Scale THEN [exc |-> "invalid_argument", h |-> NoHerbivore]
      ELSE IF body_condition < 0 THEN [exc |-> "invalid_argument", h |-> NoHerbivore]
      ELSE IF ~FatmassEnergyBudget_valid(fat, maxfat)
      THEN [exc |-> "invalid_argument", h |-> NoHerbivore]
      ELSE [exc |-> "none", h |-> NewHerbivore(hft, sex, age_days, -1, fat, 0)]

\* Establishment constructor of HerbivoreBase (ind_per_km2 is set by the
\* derived class afterwards).
HerbivoreBase_establish(age_days, body_condition, hft, sex) ==
  LET maxfat == max_fatmass_at(hft, sex, age_days)
      fat    == (body_condition * maxfat) \div Scale
  IN  IF hft.gestation_months * 30 <= 0 THEN [exc |-> "invalid_argument", h |-> NoHerbivore]
      ELSE IF age_days = 0 THEN [exc |-> "invalid_argument", h |-> NoHerbivore]
      ELSE IF age_days < 0 THEN [exc |-> "invalid_argument", h |-> NoHerbivore]
      ELSE IF "MF_LIFESPAN" \in hft.mortality_factors
              /\ age_days > hft.lifespan * DaysPerYear
      THEN [exc |-> "invalid_argument", h |-> NoHerbivore]
      ELSE IF body_condition > Scale THEN [exc |-> "invalid_argument", h |-> NoHerbivore]
      ELSE IF body_condition < 0 THEN [exc |-> "invalid_argument", h |-> NoHerbivore]
      ELSE IF ~FatmassEnergyBudget_valid(fat, maxfat)
      THEN [exc |-> "invalid_argument", h |-> NoHerbivore]
      ELSE [exc |-> "none", h |-> NewHerbivore(hft, sex, age_days, -1, fat, 0)]

\* Birth constructor.  It does not initialize `today`: the member holds
\* whatever the caller's choice `today0` stands for.
HerbivoreBase_birth(hft, sex, today0) ==
  LET maxfat == max_fatmass_at(hft, sex, 0)
      fat    == (hft.bodyfat_birth * hft.bodymass_birth) \div Scale
  IN  IF hft.gestation_months * 30 <= 0 THEN [exc |-> "invalid_argument", h |-> NoHerbivore]
      ELSE IF ~FatmassEnergyBudget_valid(fat, maxfat)
      THEN [exc |-> "invalid_argument", h |-> NoHerbivore]
      ELSE [exc |-> "none", h |-> NewHerbivore(hft, sex, 0, today0, fat, 0)]

\* HerbivoreCohort constructors: the base constructor, then the density check.
HerbivoreCohort_establish(age_days, body_condition, hft, sex, ind_per_km2) ==
  LET base == HerbivoreBase_establish(age_days, body_condition, hft, sex)
  IN  IF base.exc # "none" THEN base
      ELSE IF ind_per_km2 < 0 THEN [exc |-> "invalid_argument", h |-> NoHerbivore]
      ELSE [exc |-> "none", h |-> [base.h EXCEPT !.ind_per_km2 = ind_per_km2]]

HerbivoreCohort_birth(hft, sex, ind_per_km2, today0) ==
  LET base == HerbivoreBase_birth(hft, sex, today0)
  IN  IF base.exc # "none" THEN base
      ELSE IF ind_per_km2 < 0 THEN [exc |-> "invalid_argument", h |-> NoHerbivore]
      ELSE [exc |-> "none", h |-> [base.h EXCEPT !.ind_per_km2 = ind_per_km2]]

(***************************************************************************)
(* HerbivoreCohort: density, mortality, merging.                           *)
(***************************************************************************)
\* HerbivoreCohort::apply_mortality.  Result [exc, h].
HerbivoreCohort_apply_mortality_nocheck(h, mortality) ==
  [exc |-> "none",
   h   |-> [h EXCEPT !.ind_per_km2 = @ - (mortality * @) \div Scale]]

HerbivoreCohort_apply_mortality(h, mortality) ==
  IF mortality < 0 \/ mortality > Scale
  THEN [exc |-> "invalid_argument", h |-> h]
  ELSE LET ind_change == 0 - (mortality * get_ind_per_km2(h)) \div Scale
       IN  [exc |-> "none",
            h   |-> [h EXCEPT !.ind_per_km2 = Max(0, @ + ind_change)]]

is_same_age(h, other) == h.age_days = other.age_days

\* merge without `other.ind_per_km2 = 0.0`.
HerbivoreCohort_merge_keeps_other(h, other) ==
  IF ~is_same_age(h, other) THEN [exc |-> "invalid_argument", h |-> h, other |-> other]
  ELSE IF h.sex # other.sex THEN [exc |-> "invalid_argument", h |-> h, other |-> other]
  ELSE IF h.hft # other.hft THEN [exc |-> "invalid_argument", h |-> h, other |-> other]
  ELSE IF h.ind_per_km2 + other.ind_per_km2 = 0
  THEN [exc |-> "invalid_argument", h |-> h, other |-> other]
  ELSE [exc   |-> "none",
        h     |-> [h EXCEPT
                     !.energy_budget =
                        FatmassEnergyBudget_merge(@, other.energy_budget,
                                                  h.ind_per_km2, other.ind_per_km2),
                     !.ind_per_km2 = @ + other.ind_per_km2],
        other |-> other]

\* HerbivoreCohort::merge.  Result [exc, h, other].  The three tests come
\* first; the merge of the energy budgets averages with the two densities as
\* weights and fails, before anything is assigned, if they sum to zero.
HerbivoreCohort_merge(h, other) ==
  IF ~is_same_age(h, other) THEN [exc |-> "invalid_argument", h |-> h, other |-> other]
  ELSE IF h.sex # other.sex THEN [exc |-> "invalid_argument", h |-> h, other |-> other]
  ELSE IF h.hft # other.hft THEN [exc |-> "invalid_argument", h |-> h, other |-> other]
  ELSE IF h.ind_per_km2 + other.ind_per_km2 = 0
  THEN [exc |-> "invalid_argument", h |-> h, other |-> other]
  ELSE [exc   |-> "none",
        h     |-> [h EXCEPT
                     !.energy_budget =
                        FatmassEnergyBudget_merge(@, other.energy_budget,
                                                  h.ind_per_km2, other.ind_per_km2),
                     !.ind_per_km2 = @ + other.ind_per_km2],
        other |-> [other EXCEPT !.ind_per_km2 = 0]]

(***************************************************************************)
(* HerbivoreBase: the daily operations.                                    *)
(***************************************************************************)
\* mortality_sum = std::min(1.0, mortality_sum)
clamp_mortality_sum_missing(mortality_sum) == mortality_sum

clamp_mortality_sum(mortality_sum) == Min(Scale, mortality_sum)

\* apply_mortality_factors_today: the factors in the order of the set, the
\* output of each, the forced body condition, and the call of the virtual
\* apply_mortality with the sum.  Result [exc, h, mortality_sum].
apply_mortality_factors_today(h) ==
  LET mf    == h.hft.mortality_factors
      m_bg  == IF "MF_BACKGROUND" \in mf
               THEN GetBackgroundMortality(h.hft.mortality_juvenile,
                                           h.hft.mortality, get_age_days(h))
               ELSE 0
      m_ls  == IF "MF_LIFESPAN" \in mf
               THEN GetSimpleLifespanMortality(h.hft.lifespan, get_age_days(h))
               ELSE 0
      body_condition == (get_fatmass(h) * Scale) \div get_max_fatmass(h)
      bodyfat_deviation ==
        IF age_years_at_least(h, 1) THEN h.hft.bodyfat_deviation ELSE 0
      starv == "MF_STARVATION_ILLIUS_OCONNOR_2000" \in mf
      m_io  == IF starv
               THEN StarvationIlliusOConnor2000_mortality(bodyfat_deviation,
                                                          body_condition)
               ELSE 0
      new_body_condition ==
        IF starv
        THEN StarvationIlliusOConnor2000_new_condition(
               bodyfat_deviation, h.hft.shift_body_condition_for_starvation,
               body_condition)
        ELSE body_condition
      forced == new_body_condition # body_condition
      h1    == IF forced
               THEN [h EXCEPT !.energy_budget =
                                 force_body_condition(@, new_body_condition)]
               ELSE h
      m_th  == IF "MF_STARVATION_THRESHOLD" \in mf
               THEN GetStarvationMortalityThreshold(get_bodyfat(h1))
               ELSE 0
      out   == [f \in mf |->
                  IF f = "MF_BACKGROUND" THEN m_bg
                  ELSE IF f = "MF_LIFESPAN" THEN m_ls
                  ELSE IF f = "MF_STARVATION_ILLIUS_OCONNOR_2000" THEN m_io
                  ELSE m_th]
      h2    == [h1 EXCEPT !.current_output.mortality = out]
      mortality_sum == clamp_mortality_sum(m_bg + m_ls + m_io + m_th)
      applied == HerbivoreCohort_apply_mortality(h2, mortality_sum)
  IN  IF forced /\ force_body_condition_fails(h.energy_budget, new_body_condition)
      THEN [exc |-> "invalid_argument", h |-> h, mortality_sum |-> << >>]
      ELSE [exc |-> applied.exc, h |-> applied.h,
            mortality_sum |-> <<mortality_sum>>]

\* get_todays_offspring_proportion, with the immaturity test of the draft
\* (`>=` for `<`).
get_todays_offspring_proportion_draft(h) ==
  IF h.sex = "SEX_MALE" \/ age_years_at_least(h, h.hft.maturity_age_sex)
  THEN 0
  ELSE ReproductionConstMax_get_offspring_density(h.hft, h.today)

get_todays_offspring_proportion(h) ==
  IF h.sex = "SEX_MALE" \/ ~age_years_at_least(h, h.hft.maturity_age_sex)
  THEN 0
  ELSE LET body_condition == PeriodAverage_get_average(h.body_condition_gestation)
       IN  IF h.hft.reproduction_model = "RM_ILLIUS_OCONNOR_2000"
           THEN ReprIlliusOconnor2000_get_offspring_density(h.hft, h.today,
                                                            body_condition)
           ELSE IF h.hft.reproduction_model = "RM_CONST_MAX"
           THEN ReproductionConstMax_get_offspring_density(h.hft, h.today)
           ELSE IF h.hft.reproduction_model = "RM_LINEAR"
           THEN ReproductionLinear_get_offspring_density(h.hft, h.today,
                                                         body_condition)
           ELSE 0

\* get_average() throws when no value has been recorded.
get_todays_offspring_proportion_fails(h) ==
  /\ ~(h.sex = "SEX_MALE" \/ ~age_years_at_least(h, h.hft.maturity_age_sex))
  /\ h.body_condition_gestation.values = << >>

\* simulate_day up to and including the update of the energy budget's limits.
simulate_day_begin(h, day, environment) ==
  LET h1 == [h EXCEPT
               !.environment = <<environment>>,
               !.nitrogen = Nitrogen_digest_today(@, get_kg_per_km2(h)),
               !.today = day,
               !.age_days = @ + 1]
  IN  IF h1.sex = "SEX_FEMALE"
      THEN [h1 EXCEPT !.body_condition_gestation =
              PeriodAverage_add_value(@,
                (get_fatmass(h1) * Scale) \div get_max_fatmass(h1))]
      ELSE h1

\* The new output, catabolism and today's expenditure.
simulate_day_energy(h) ==
  LET b1 == set_max_fatmass(h.energy_budget, get_max_fatmass(h),
                            (h.hft.bodyfat_max_daily_gain * get_bodymass(h)) \div Scale)
      h1 == [h EXCEPT !.energy_budget = b1]
      h2 == [h1 EXCEPT !.current_output =
               [HerbivoreData EXCEPT
                  !.age_years      = (h1.age_days * Scale) \div DaysPerYear,
                  !.bodyfat        = get_bodyfat(h1),
                  !.bound_nitrogen = Nitrogen_get_unavailable(h1.nitrogen),
                  !.inddens        = get_ind_per_km2(h1),
                  !.massdens       = get_kg_per_km2(h1)]]
      h3 == [h2 EXCEPT !.energy_budget = catabolize_fat(@)]
      todays_expenditure == get_todays_expenditure(h3)
  IN  [h3 EXCEPT !.energy_budget = add_energy_needs(@, todays_expenditure),
                 !.current_output.expenditure = todays_expenditure]

\* A simulate_day that ends after the physiology of the day: the offspring
\* are not computed and no mortality is applied.
HerbivoreBase_simulate_day_physiology_only(h, day, environment, offspring_in) ==
  IF day < 0 \/ day >= DaysPerYear \/ is_dead(h)
  THEN [exc |-> "invalid_argument", h |-> h, offspring |-> offspring_in,
        mortality_sum |-> << >>]
  ELSE Bind(simulate_day_begin(h, day, environment), LAMBDA h1 :
         IF set_max_fatmass_fails(h1.energy_budget, get_max_fatmass(h1),
               (h1.hft.bodyfat_max_daily_gain * get_bodymass(h1)) \div Scale)
         THEN [exc |-> "logic_error", h |-> h1, offspring |-> offspring_in,
               mortality_sum |-> << >>]
         ELSE [exc |-> "none", h |-> simulate_day_energy(h1),
               offspring |-> offspring_in, mortality_sum |-> << >>])

\* A simulate_day that tests its argument and is_dead() only after the
\* environment, the nitrogen, `today` and the age have been updated.
HerbivoreBase_simulate_day_checks_late(h, day, environment, offspring_in) ==
  IF day < 0 \/ day >= DaysPerYear \/ is_dead(h)
  THEN [exc |-> "invalid_argument", h |-> simulate_day_begin(h, day, environment),
        offspring |-> offspring_in, mortality_sum |-> << >>]
  ELSE
    Bind(simulate_day_begin(h, day, environment), LAMBDA h1 :
      IF set_max_fatmass_fails(h1.energy_budget, get_max_fatmass(h1),
            (h1.hft.bodyfat_max_daily_gain * get_bodymass(h1)) \div Scale)
      THEN [exc |-> "logic_error", h |-> h1, offspring |-> offspring_in,
            mortality_sum |-> << >>]
      ELSE
        Bind(simulate_day_energy(h1), LAMBDA h2 :
          IF get_todays_offspring_proportion_fails(h2)
          THEN [exc |-> "logic_error", h |-> h2, offspring |-> offspring_in,
                mortality_sum |-> << >>]
          ELSE
            Bind((get_todays_offspring_proportion(h2)
                    * get_ind_per_km2(h2)) \div Scale, LAMBDA offspring :
              Bind(apply_mortality_factors_today(
                     [h2 EXCEPT !.current_output.offspring = offspring]),
                   LAMBDA m :
                     [exc |-> m.exc, h |-> m.h, offspring |-> offspring,
                      mortality_sum |-> m.mortality_sum]))))

\* HerbivoreBase::simulate_day.  Result [exc, h, offspring, mortality_sum]:
\* offspring is the out-parameter (offspring_in when it is not written),
\* mortality_sum the value handed to apply_mortality (<< >> when not reached).
HerbivoreBase_simulate_day(h, day, environment, offspring_in) ==
  IF day < 0 \/ day >= DaysPerYear
  THEN [exc |-> "invalid_argument", h |-> h, offspring |-> offspring_in,
        mortality_sum |-> << >>]
  ELSE IF is_dead(h)
  THEN [exc |-> "invalid_argument", h |-> h, offspring |-> offspring_in,
        mortality_sum |-> << >>]
  ELSE
    Bind(simulate_day_begin(h, day, environment), LAMBDA h1 :
      IF set_max_fatmass_fails(h1.energy_budget, get_max_fatmass(h1),
            (h1.hft.bodyfat_max_daily_gain * get_bodymass(h1)) \div Scale)
      THEN [exc |-> "logic_error", h |-> h1, offspring |-> offspring_in,
            mortality_sum |-> << >>]
      ELSE
        Bind(simulate_day_energy(h1), LAMBDA h2 :
          IF get_todays_offspring_proportion_fails(h2)
          THEN [exc |-> "logic_error", h |-> h2, offspring |-> offspring_in,
                mortality_sum |-> << >>]
          ELSE
            Bind((get_todays_offspring_proportion(h2)
                    * get_ind_per_km2(h2)) \div Scale, LAMBDA offspring :
              Bind(apply_mortality_factors_today(
                     [h2 EXCEPT !.current_output.offspring = offspring]),
                   LAMBDA m :
                     [exc |-> m.exc, h |-> m.h, offspring |-> offspring,
                      mortality_sum |-> m.mortality_sum]))))

\* HerbivoreBase::get_today
get_today_fails(h) == h.today = -1

\* GetForageDemands::operator(): the energy demand routed to grass
\* (PureGrazer), converted to mass [g/ind]; zero where the energy content
\* is zero.
GetForageDemands_demand(energy_content, total_energy_demands) ==
  [ft \in FORAGE_TYPES |->
     IF energy_content[ft] = 0 \/ ft # "grass" THEN 0
     ELSE (total_energy_demands * Scale) \div energy_content[ft]]

\* HerbivoreBase::get_forage_demands.  Result [exc, h, demand], the demand
\* in g/km2.
HerbivoreBase_get_forage_demands(h, available_forage) ==
  IF is_dead(h) THEN [exc |-> "none", h |-> h, demand |-> ForageValue(0)]
  ELSE IF get_today_fails(h)
  THEN [exc |-> "logic_error", h |-> h, demand |-> ForageValue(0)]
  ELSE
    LET fresh == h.forage_demands.today # h.today
        net_energy_content ==
          get_net_energy_content(h, available_forage.digestibility)
        h1 == IF fresh
              THEN [h EXCEPT
                      !.forage_demands =
                         [today |-> h.today,
                          energy_content |-> net_energy_content,
                          max_intake |-> ForageValue(0)],
                      !.current_output.energy_content = net_energy_content]
              ELSE h
        total_energy_demands ==
          h1.energy_budget.energy_needs
            + get_max_anabolism_per_day(h1.energy_budget)
        demand_ind == GetForageDemands_demand(h1.forage_demands.energy_content,
                                              total_energy_demands)
        h2 == [h1 EXCEPT !.forage_demands.max_intake = demand_ind]
    IN  [exc |-> "none", h |-> h2,
         demand |-> [ft \in FORAGE_TYPES |->
                       (demand_ind[ft] * get_ind_per_km2(h2)) \div Scale]]

\* GetForageDemands::add_eaten rejects more than what is left of the demand.
add_eaten_fails(g, kg_per_ind) ==
  \E ft \in FORAGE_TYPES : kg_per_ind[ft] > g.max_intake[ft]

\* HerbivoreBase::eat.  Result [exc, h].
HerbivoreBase_eat(h, kg_per_km2, digestibility, N_kg_per_km2) ==
  IF get_ind_per_km2(h) = 0 /\ kg_per_km2 = ForageValue(0)
  THEN [exc |-> "logic_error", h |-> h]
  ELSE IF get_ind_per_km2(h) = 0
  THEN [exc |-> "assertion_or_division_by_zero", h |-> h]
  ELSE
    LET kg_per_ind   == [ft \in FORAGE_TYPES |->
                           (kg_per_km2[ft] * Scale) \div get_ind_per_km2(h)]
        N_kg_per_ind == [ft \in FORAGE_TYPES |->
                           (N_kg_per_km2[ft] * Scale) \div get_ind_per_km2(h)]
        nec          == get_net_energy_content(h, digestibility)
        mj_per_ind   == [ft \in FORAGE_TYPES |->
                           (nec[ft] * kg_per_ind[ft]) \div Scale]
    IN  IF add_eaten_fails(h.forage_demands, kg_per_ind)
        THEN [exc |-> "logic_error", h |-> h]
        ELSE
          [exc |-> "none",
           h |-> [h EXCEPT
              !.forage_demands.max_intake =
                 [ft \in FORAGE_TYPES |-> @[ft] - kg_per_ind[ft]],
              !.energy_budget = metabolize_energy(@, ForageSum(mj_per_ind)),
              !.current_output.eaten_forage_per_ind =
                 [ft \in FORAGE_TYPES |-> @[ft] + kg_per_ind[ft]],
              !.current_output.energy_intake_per_ind =
                 [ft \in FORAGE_TYPES |-> @[ft] + mj_per_ind[ft]],
              !.current_output.eaten_nitrogen_per_ind =
                 @ + ForageSum(N_kg_per_ind),
              !.nitrogen =
                 Nitrogen_ingest(@, (ForageSum(N_kg_per_ind)
                                       * get_ind_per_km2(h)) \div Scale)]]

\* HerbivoreBase::take_nitrogen_excreta.  Result [h, excreta].
HerbivoreBase_take_nitrogen_excreta(h) ==
  IF ~is_dead(h)
  THEN [h |-> [h EXCEPT !.nitrogen.excreta = 0], excreta |-> h.nitrogen.excreta]
  ELSE [h |-> [h EXCEPT !.nitrogen = NitrogenInHerbivore],
        excreta |-> h.nitrogen.ingested + h.nitrogen.bound + h.nitrogen.excreta]

(***************************************************************************)
(* State.                                                                  *)
(*   herb        the cohort under test (NoHerbivore if construction threw) *)
(*   h_prev      the cohort before the last operation                      *)
(*   h_op        the last operation, h_exc the exception it threw          *)
(*   h_arg       the mortality handed to apply_mortality by the last       *)
(*               operation, as <<m>> (<< >> if none)                       *)
(*   h_offspring the offspring out-parameter of the last simulate_day      *)
(*   h_day       the day passed to the last operation if it was            *)
(*               simulate_day (a sequence of one element or none)          *)
(*   h_eaten     the arguments of the last operation if it was eat, as     *)
(*               <<kg_per_km2, digestibility, N_kg_per_km2>> (else << >>)  *)
(*   h_steps     number of operations after construction                   *)
(*                                                                         *)
(*   herbivore_establish_interval   Parameters of the World                *)
(*   sim_units   the simulation units of the World, in order               *)
(*   days_since_last_establishment  the World's cadence counter            *)
(*   w_day       number of calls of World::simulate_day that returned      *)
(*   w_day_of_year  the day_of_year passed to the last call                *)
(*   w_exc       the exception of the last call of World::simulate_day     *)
(*                                                                         *)
(*   d_unit      one simulation unit in detail: its HFT, the cohorts of    *)
(*               its population, the initial-establishment flag            *)
(*   d_day       the day of the year of the next daily tick                *)
(*   d_ticks     number of daily ticks so far                              *)
(*   d_last      what the last tick did: the calls in order (log), the     *)
(*               exception that ended it, the forage reported available,   *)
(*               the forage removed, the nitrogen returned, the nitrogen   *)
(*               ingested through eat                                      *)
(*   d_ingested  all nitrogen ingested through eat so far                  *)
(*   d_returned  all nitrogen passed to add_excreted_nitrogen so far       *)
(*                                                                         *)
(*   s_hftlist_size  number of HFTs in the global HftList                  *)
(*   s_populations   the habitat's populations (Simulator of the           *)
(*                   framework), each with the list of its herbivores      *)
(*   s_calls     number of calls made on the Simulator                     *)
(*   s_last      the last Simulator::simulate_day: how it ended, the       *)
(*               forage reported available, the eat calls, the masses      *)
(*               passed to remove_eaten_forage                             *)
(*   s_dist      the last call of DistributeForageEqually on its own       *)
(*                                                                         *)
(*   m_this      the cohort merge() is called on                           *)
(*   m_other     the cohort passed to merge()                              *)
(*   m_before    the two cohorts before the last merge()                   *)
(*   m_exc       how the last merge() ended                                *)
(*   m_merges    number of merge() calls so far                            *)
(*                                                                         *)
(*   p_hftlist   the HFTs (by name), in the order of the list              *)
(*   p_herbivore_type  params.herbivore_type of the Simulator              *)
(*   p_op        the last function that created a populations map          *)
(*   p_reads     the indices at which it read the list of HFTs, in order   *)
(*   p_map       the populations map it built: the HFT of every entry      *)
(*   p_outcome   how it ended                                              *)
(*   p_calls     number of populations maps created so far                 *)
(* The output module (HerbivoryOutput) and the simulation around it:      *)
(*   o_isactive, o_interval, o_tables   members of HerbivoryOutput        *)
(*   o_hftlist   [is_set, list]: the global list of HFTs and whether      *)
(*               set_hftlist has handed it to the output module           *)
(*   o_interval_xtring, o_nyear_spinup, o_date   global parameters and    *)
(*               the global date [day, year, calendar_year]               *)
(*   o_forage_types   FORAGE_TYPES in its order                           *)
(*   o_units     the output accumulator of every simulation unit          *)
(*   o_daily     the data every simulation unit adds on a day             *)
(*   o_phase     setup, initialized, simulated, written or ended          *)
(*   o_days      number of days simulated so far                          *)
(*   o_caller    who calls outdaily in this simulation: the output        *)
(*               framework of the vegetation model, with the gridcell, or *)
(*               another framework, with the date and the units           *)
(*   o_last      the last call: [op, exc, rows, before], before being the *)
(*               accumulators at the call                                 *)
(* The reader of the instruction file (InsfileReader):                    *)
(*   r_ins       the parsed instruction file                              *)
(*   r_step      how far the constructor has come, or failed              *)
(*   r_params, r_hfts   the parameters and the HFTs read so far           *)
(*   r_error     the exception that ended the construction                *)
(*   r_found     the result of a call of a search function                *)
(***************************************************************************)
VARIABLES herb, h_prev, h_op, h_exc, h_arg, h_offspring, h_day, h_eaten,
          h_steps,
          herbivore_establish_interval, sim_units,
          days_since_last_establishment, w_day, w_day_of_year, w_exc,
          d_unit, d_day, d_ticks, d_last, d_ingested, d_returned,
          s_hftlist_size, s_populations, s_calls, s_last, s_dist,
          m_this, m_other, m_before, m_exc, m_merges,
          p_hftlist, p_herbivore_type, p_op, p_reads, p_map, p_outcome, p_calls,
          o_isactive, o_interval, o_interval_xtring, o_hftlist,
          o_forage_types, o_nyear_spinup, o_tables, o_date, o_units, o_daily,
          o_phase, o_days, o_last, o_caller,
          r_ins, r_step, r_params, r_hfts, r_error, r_found,
          a_average, a_op, a_exc, a_added, a_result,
          q_season, q_max, q_day, q_sum_year, q_sum_season,
          g_a, g_b, g_c, g_average, g_left, g_right,
          f_nyears, f_pc, f_year, f_day_of_year, f_calls, f_last_date,
          f_by_zero, f_progress,
          c_copy, c_op, c_exc, c_offspring, c_mortality

hvars == <<herb, h_prev, h_op, h_exc, h_arg, h_offspring, h_day,
          h_eaten, h_steps>>

wvars == <<herbivore_establish_interval, sim_units,
           days_since_last_establishment, w_day, w_day_of_year, w_exc>>

dvars == <<d_unit, d_day, d_ticks, d_last, d_ingested, d_returned>>

svars == <<s_hftlist_size, s_populations, s_calls, s_last, s_dist>>

mvars == <<m_this, m_other, m_before, m_exc, m_merges>>

\* The variables of the specifications of the second part of the module.
pvars == <<p_hftlist, p_herbivore_type, p_op, p_reads, p_map, p_outcome,
           p_calls>>

ovars == <<o_isactive, o_interval, o_interval_xtring, o_hftlist,
           o_forage_types, o_nyear_spinup, o_tables, o_date, o_units, o_daily,
           o_phase, o_days, o_last, o_caller>>

rvars == <<r_ins, r_step, r_params, r_hfts, r_error, r_found>>

avars == <<a_average, a_op, a_exc, a_added, a_result>>

\* The variables of the specifications of the last part of the module.
qvars == <<q_season, q_max, q_day, q_sum_year, q_sum_season>>

gvars == <<g_a, g_b, g_c, g_average, g_left, g_right>>

fvars == <<f_nyears, f_pc, f_year, f_day_of_year, f_calls, f_last_date,
           f_by_zero, f_progress>>

cvars == <<c_copy, c_op, c_exc, c_offspring, c_mortality>>

lvars == <<avars, qvars, gvars, fvars, cvars>>

\* What the actions on one of these groups leave unchanged of the others.
NotAverageVars == <<qvars, gvars, fvars, cvars>>
NotSeasonVars == <<avars, gvars, fvars, cvars>>
NotWeightedVars == <<avars, qvars, fvars, cvars>>
NotFrameworkVars == <<avars, qvars, gvars, cvars>>
NotCopyVars == <<avars, qvars, gvars, fvars>>

xvars == <<mvars, pvars, ovars, rvars, lvars>>

vars == <<hvars, wvars, dvars, svars, xvars>>

MaxSteps == 3

\* The HFTs of the runs of single operations: no mortality factor, the
\* default ones, and all of them.
HftVariants ==
  { [DefaultHft EXCEPT !.mortality_factors = {},
                       !.reproduction_model = "RM_LINEAR"],
    DefaultHft,
    [DefaultHft EXCEPT !.mortality_factors = MortalityFactors,
                       !.reproduction_model = "RM_ILLIUS_OCONNOR_2000"] }

\* The HFTs of the runs of simulate_day: every subset of the mortality
\* factors with every reproduction model.
HftAllModels ==
  {[DefaultHft EXCEPT !.mortality_factors = mf, !.reproduction_model = rm] :
     mf \in SUBSET MortalityFactors, rm \in ReproductionModels}

Sexes == {"SEX_MALE", "SEX_FEMALE"}

EstablishAges == {-1, 0, 364, 729, 730, 731}
EstablishConditions == {0, 500, 1001}
Densities == {-1, 0, 5, 1000}
UninitializedToday == {-1, 120, 400}
SimDays == {-1, 99, 100, 365}
Mortalities == {-1, 0, 400, 1000, 1001}
EatenMasses == {0, 10000, 2000000}
Digestibilities == {0, 500}

HerbIdle ==
  /\ herb = NoHerbivore /\ h_prev = NoHerbivore /\ h_op = "idle"
  /\ h_exc = "none" /\ h_arg = << >> /\ h_offspring = -1 /\ h_day = << >> /\ h_eaten = << >>
  /\ h_steps = 0

WorldIdle ==
  /\ herbivore_establish_interval = 0 /\ sim_units = << >>
  /\ days_since_last_establishment = 0 /\ w_day = 0 /\ w_day_of_year = 0
  /\ w_exc = "none"

NoTick ==
  [log |-> << >>, exc |-> "none", available |-> ForageValue(0),
   removed |-> ForageValue(0), excreta |-> 0, ingested |-> 0]

DayIdle ==
  /\ d_unit = [hft |-> DefaultHft, population |-> << >>,
               initial_establishment_done |-> FALSE]
  /\ d_day = 0 /\ d_ticks = 0 /\ d_last = NoTick
  /\ d_ingested = 0 /\ d_returned = 0

\* ForageDistribution: herbivore -> ForageMass, empty when constructed.
EmptyDistribution == [x \in {} |-> ForageValue(0)]

NoCall ==
  [outcome |-> "none", do_herbivores |-> FALSE, available |-> ForageValue(0),
   eat_calls |-> EmptyDistribution, remove_calls |-> << >>]

NoDistribution ==
  [called |-> FALSE, available |-> ForageValue(0),
   forage_distribution |-> EmptyDistribution, forage_sum |-> ForageValue(0)]

SimIdle ==
  /\ s_hftlist_size = 0 /\ s_populations = << >> /\ s_calls = 0
  /\ s_last = NoCall /\ s_dist = NoDistribution

MergeIdle ==
  /\ m_this = NoHerbivore /\ m_other = NoHerbivore /\ m_before = << >>
  /\ m_exc = "none" /\ m_merges = 0

PopulationsIdle ==
  /\ p_hftlist = << >> /\ p_herbivore_type = "HT_COHORT" /\ p_op = "none"
  /\ p_reads = << >> /\ p_map = << >> /\ p_outcome = "none" /\ p_calls = 0

OutputIdle ==
  /\ o_isactive = FALSE /\ o_interval = "ANNUAL" /\ o_interval_xtring = ""
  /\ o_hftlist = << >> /\ o_forage_types = << >> /\ o_nyear_spinup = 0
  /\ o_tables = << >> /\ o_date = << >> /\ o_units = << >>
  /\ o_daily = << >> /\ o_phase = "idle" /\ o_days = 0 /\ o_last = << >>
  /\ o_caller = "none"

ReaderIdle ==
  /\ r_ins = << >> /\ r_step = "idle" /\ r_params = << >> /\ r_hfts = << >>
  /\ r_error = << >> /\ r_found = << >>

NoPeriodAverage == [count |-> 0, values |-> << >>, current_index |-> 0]

AverageIdle ==
  /\ a_average = NoPeriodAverage /\ a_op = "idle" /\ a_exc = "none"
  /\ a_added = << >> /\ a_result = << >>

\* The groups of the last part of the module.
SeasonIdle ==
  /\ q_season = << >> /\ q_max = 0 /\ q_day = 0 /\ q_sum_year = 0
  /\ q_sum_season = 0

WeightedIdle ==
  /\ g_a = << >> /\ g_b = << >> /\ g_c = << >> /\ g_average = << >>
  /\ g_left = << >> /\ g_right = << >>

FrameworkIdle ==
  /\ f_nyears = 0 /\ f_pc = "idle" /\ f_year = 0 /\ f_day_of_year = 0
  /\ f_calls = 0 /\ f_last_date = << >> /\ f_by_zero = FALSE
  /\ f_progress = << >>

CopyIdle ==
  /\ c_copy = NoHerbivore /\ c_op = "idle" /\ c_exc = "none"
  /\ c_offspring = -1 /\ c_mortality = << >>

LastIdle ==
  AverageIdle /\ SeasonIdle /\ WeightedIdle /\ FrameworkIdle /\ CopyIdle

LaterIdle == ReaderIdle /\ LastIdle

ExtIdle == MergeIdle /\ PopulationsIdle /\ OutputIdle /\ LaterIdle

CoreIdle == HerbIdle /\ WorldIdle /\ DayIdle /\ SimIdle

Constructed(r, op) ==
  /\ WorldIdle /\ DayIdle /\ SimIdle /\ ExtIdle
  /\ herb = r.h /\ h_prev = NoHerbivore /\ h_op = op /\ h_exc = r.exc
  /\ h_arg = << >> /\ h_offspring = -1 /\ h_day = << >> /\ h_eaten = << >> /\ h_steps = 0

InitHerb ==
  \E hft \in HftVariants, sex \in Sexes, ind \in Densities :
    \/ \E age \in EstablishAges, bc \in EstablishConditions :
         Constructed(HerbivoreCohort_establish(age, bc, hft, sex, ind), "establish")
    \/ \E today0 \in UninitializedToday :
         Constructed(HerbivoreCohort_birth(hft, sex, ind, today0), "birth")

\* An object exists and the process has not been aborted.
HerbUsable ==
  /\ h_op # "idle"
  /\ ~(h_op \in {"establish", "birth"} /\ h_exc # "none")
  /\ h_exc # "assertion_or_division_by_zero"
  /\ h_steps < MaxSteps

\* The record of one operation on the herbivore.
Recorded(op, r_exc, r_h, arg, offspring, day, eaten) ==
  /\ herb' = r_h /\ h_prev' = herb /\ h_op' = op /\ h_exc' = r_exc
  /\ h_arg' = arg /\ h_offspring' = offspring /\ h_day' = day
  /\ h_eaten' = eaten
  /\ h_steps' = h_steps + 1
  /\ UNCHANGED <<wvars, dvars, svars, xvars>>

Done(op, r_exc, r_h, arg, offspring) ==
  Recorded(op, r_exc, r_h, arg, offspring, << >>, << >>)

H_simulate_day ==
  /\ HerbUsable
  /\ \E day \in SimDays :
       LET r == HerbivoreBase_simulate_day(herb, day, "env", -1)
       IN  Recorded("simulate_day", r.exc, r.h, r.mortality_sum, r.offspring,
                    <<day>>, << >>)

H_get_forage_demands ==
  /\ HerbUsable
  /\ \E d \in Digestibilities :
       LET r == HerbivoreBase_get_forage_demands(herb,
                  [mass |-> ForageValue(1000000), digestibility |-> ForageValue(d)])
       IN  Done("get_forage_demands", r.exc, r.h, << >>, -1)

H_eat ==
  /\ HerbUsable
  /\ \E kg \in EatenMasses, d \in Digestibilities :
       LET r == HerbivoreBase_eat(herb, ForageValue(kg), ForageValue(d),
                                  ForageValue(kg \div 100))
       IN  Recorded("eat", r.exc, r.h, << >>, -1, << >>,
                    <<ForageValue(kg), ForageValue(d), ForageValue(kg \div 100)>>)

H_apply_mortality ==
  /\ HerbUsable
  /\ \E m \in Mortalities :
       LET r == HerbivoreCohort_apply_mortality(herb, m)
       IN  Done("apply_mortality", r.exc, r.h, <<m>>, -1)

H_take_nitrogen_excreta ==
  /\ HerbUsable
  /\ LET r == HerbivoreBase_take_nitrogen_excreta(herb)
     IN  Done("take_nitrogen_excreta", "none", r.h, << >>, -1)

\* merge with a freshly established cohort of the same or of another age,
\* sex and HFT.
H_merge ==
  /\ HerbUsable
  /\ \E age \in {herb.age_days, 365}, sex \in Sexes, hft \in {herb.hft, DefaultHft},
        ind \in {0, 1000} :
       LET o == HerbivoreCohort_establish(age, 500, hft, sex, ind)
           r == HerbivoreCohort_merge(herb, o.h)
       IN  /\ o.exc = "none"
           /\ Done("merge", r.exc, r.h, << >>, -1)

NextHerb ==
  \/ H_simulate_day
  \/ H_get_forage_demands
  \/ H_eat
  \/ H_apply_mortality
  \/ H_take_nitrogen_excreta
  \/ H_merge

SpecHerb == InitHerb /\ [][NextHerb]_vars

\* Runs of simulate_day alone, over every combination of mortality factors
\* and reproduction model.
InitSimulateDay ==
  \E hft \in HftAllModels, sex \in Sexes :
    \/ \E age \in {364, 729, 730}, bc \in {0, 500, 1000} :
         Constructed(HerbivoreCohort_establish(age, bc, hft, sex, 1000), "establish")
    \/ Constructed(HerbivoreCohort_birth(hft, sex, 1000, -1), "birth")

NextSimulateDay == H_simulate_day

SpecSimulateDay == InitSimulateDay /\ [][NextSimulateDay]_vars

(***************************************************************************)
(* Fauna::World: simulation units and the establishment cadence.           *)
(***************************************************************************)
MaxDays == 22

HftNames == {"hft0", "hft1"}
EstablishIntervals == {-1, 0, 3, 10}
UnitCounts == {1, 2}

\* A SimulationUnit as create_simulation_unit builds it: one empty
\* population per HFT, no initial establishment yet.  populations maps an
\* HFT to the density of its herbivores (0: the list is empty).  The other
\* fields record the unit's last visit by World::simulate_day:
\*   establish_if_needed  the flag the unit was simulated with
\*   counter_seen         days_since_last_establishment as the visit read it
\*   extinct_on           the day on which its last population died out
\*                        (-1 while a population lives or none ever did)
\*   reestablished_after  the day of extinction D, if this visit re-created
\*                        the populations of the extinct unit (-1 otherwise)
\*   last_event           the day of the last visit with the flag set
\*   days_since_event     at the last visit, the days since the visit with
\*                        the flag set before it (-1: there was none)
SimulationUnit ==
  [ initial_establishment_done |-> FALSE,
    populations         |-> [n \in HftNames |-> 0],
    establish_if_needed |-> FALSE,
    counter_seen        |-> -1,
    extinct_on          |-> -1,
    reestablished_after |-> -1,
    last_event          |-> -1,
    days_since_event    |-> -1 ]

\* The cadence check of World::simulate_day for one simulation unit, with a
\* counter that is never reset.
World_establishment_check_no_reset(counter, interval, initial_establishment_done) ==
  [ establish_if_needed |->
      ~initial_establishment_done \/ (counter = interval /\ interval > 0),
    counter |-> counter + 1 ]

\* The cadence check of World::simulate_day for one simulation unit: the
\* flag for SimulateDay and the new value of days_since_last_establishment.
World_establishment_check(counter, interval, initial_establishment_done) ==
  LET due == counter = interval /\ interval > 0
  IN  [ establish_if_needed |-> ~initial_establishment_done \/ due,
        counter |-> (IF due THEN 0 ELSE counter) + 1 ]

\* SimulateDay::operator()(do_herbivores, establish_if_needed) on one unit,
\* with a population reduced to its density: establishment of every empty
\* population, then the day of the herbivores, in which the populations in
\* `dying` lose all their members.
SimulateDay_establishment(unit, today, do_herbivores, establish_if_needed, dying) ==
  LET was_extinct == \A n \in HftNames : unit.populations[n] = 0
      established ==
        IF do_herbivores /\ establish_if_needed
        THEN [n \in HftNames |->
                IF unit.populations[n] = 0 THEN DefaultHft.establishment_density
                ELSE unit.populations[n]]
        ELSE unit.populations
      simulated ==
        IF do_herbivores
        THEN [n \in HftNames |-> IF n \in dying THEN 0 ELSE established[n]]
        ELSE established
      alive_before == \E n \in HftNames : established[n] > 0
      extinct_now  == \A n \in HftNames : simulated[n] = 0
  IN  [unit EXCEPT
         !.initial_establishment_done =
            @ \/ (do_herbivores /\ establish_if_needed),
         !.populations = simulated,
         !.extinct_on = IF ~extinct_now THEN -1
                        ELSE IF alive_before THEN today ELSE @,
         !.reestablished_after =
            IF was_extinct /\ unit.extinct_on # -1 /\ alive_before
            THEN unit.extinct_on ELSE -1]

\* The loop of World::simulate_day over sim_units, from unit i on.
\* Result [units, counter].
RECURSIVE World_simulate_units(_, _, _, _, _, _)
World_simulate_units(units, i, counter, interval, today, dying) ==
  IF i > Len(units) THEN [units |-> units, counter |-> counter]
  ELSE
    LET check == World_establishment_check(
                   counter, interval, units[i].initial_establishment_done)
        seen  == [units[i] EXCEPT
                    !.establish_if_needed = check.establish_if_needed,
                    !.counter_seen = counter,
                    !.days_since_event =
                       IF units[i].last_event = -1 THEN -1
                       ELSE today - units[i].last_event,
                    !.last_event =
                       IF check.establish_if_needed THEN today ELSE @]
        unit  == SimulateDay_establishment(seen, today, TRUE, check.establish_if_needed,
                             dying[i])
    IN  World_simulate_units([units EXCEPT ![i] = unit], i + 1, check.counter,
                             interval, today, dying)

\* World::World: the counter starts at the interval read from the
\* instruction file.
InitWorld ==
  /\ HerbIdle /\ DayIdle /\ SimIdle /\ ExtIdle
  /\ herbivore_establish_interval \in EstablishIntervals
  /\ sim_units = << >>
  /\ days_since_last_establishment = herbivore_establish_interval
  /\ w_day = 0
  /\ w_day_of_year = 0
  /\ w_exc = "none"

\* World::create_simulation_unit, called before the first simulated day.
World_create_simulation_unit ==
  /\ w_day = 0 /\ w_exc = "none"
  /\ \E n \in UnitCounts : Len(sim_units) < n
  /\ sim_units' = Append(sim_units, SimulationUnit)
  /\ UNCHANGED <<herbivore_establish_interval, days_since_last_establishment,
                 w_day, w_day_of_year, w_exc, hvars, dvars, svars, xvars>>

\* World::simulate_day(day_of_year, do_herbivores = true).  The day of the
\* year is the number of the call, or a value out of range.
World_simulate_day ==
  /\ w_day < MaxDays
  /\ sim_units # << >>
  /\ \E day_of_year \in {w_day % DaysPerYear, -1, DaysPerYear} :
       IF day_of_year < 0 \/ day_of_year >= DaysPerYear
       THEN /\ w_exc' = "invalid_argument"
            /\ w_day_of_year' = day_of_year
            /\ UNCHANGED <<herbivore_establish_interval, sim_units,
                           days_since_last_establishment, w_day>>
       ELSE \E dying \in [1..Len(sim_units) -> SUBSET HftNames] :
              LET r == World_simulate_units(
                         sim_units, 1, days_since_last_establishment,
                         herbivore_establish_interval, w_day, dying)
              IN  /\ sim_units' = r.units
                  /\ days_since_last_establishment' = r.counter
                  /\ w_day' = w_day + 1
                  /\ w_exc' = "none"
                  /\ w_day_of_year' = day_of_year
                  /\ UNCHANGED herbivore_establish_interval
  /\ UNCHANGED <<hvars, dvars, svars, xvars>>

NextWorld ==
  \/ World_create_simulation_unit
  \/ World_simulate_day

SpecWorld == InitWorld /\ [][NextWorld]_vars

(***************************************************************************)
(* The daily tick of one simulation unit in detail (SimulateDay and        *)
(* FeedHerbivores), as one step that records the calls it makes.           *)
(***************************************************************************)
MaxTicks == 3

\* The cohort an entry of the log is about: sex and age identify a cohort
\* of a population.
CohortKey(h) == <<h.sex, h.age_days>>

Event(op, h, exc) ==
  [op |-> op, cohort |-> CohortKey(h), exc |-> exc,
   offspring_computed |-> FALSE, mortality_applied |-> FALSE]

Stage(op, exc) ==
  [op |-> op, cohort |-> << >>, exc |-> exc,
   offspring_computed |-> FALSE, mortality_applied |-> FALSE]

\* CreateHerbivoreCommon::get_body_condition: full fat reserves for an
\* established cohort.
get_body_condition(age_days) == Scale

\* CreateHerbivoreCohort::operator().  Result [exc, h].
CreateHerbivoreCohort(hft, ind_per_km2, age_years, sex, today0) ==
  IF ind_per_km2 <= 0 THEN [exc |-> "invalid_argument", h |-> NoHerbivore]
  ELSE IF age_years < 0 THEN [exc |-> "invalid_argument", h |-> NoHerbivore]
  ELSE LET age_days == age_years * DaysPerYear
       IN  IF age_days = 0
           THEN HerbivoreCohort_birth(hft, sex, ind_per_km2, today0)
           ELSE HerbivoreCohort_establish(age_days, get_body_condition(age_days),
                                          hft, sex, ind_per_km2)

\* Insertion into a population: a cohort of the same age and sex absorbs
\* the new one.
RECURSIVE Population_add(_, _)
Population_add(list, h) ==
  IF list = << >> THEN <<h>>
  ELSE IF Head(list).sex = h.sex /\ is_same_age(Head(list), h)
  THEN <<HerbivoreCohort_merge(Head(list), h).h>> \o Tail(list)
  ELSE <<Head(list)>> \o Population_add(Tail(list), h)

\* Population::create / create_offspring: the density split evenly between
\* the sexes.  Result [exc, list].
Population_create(list, hft, ind_per_km2, age_years, today0) ==
  LET male   == CreateHerbivoreCohort(hft, ind_per_km2 \div 2, age_years,
                                      "SEX_MALE", today0)
      female == CreateHerbivoreCohort(hft, ind_per_km2 - ind_per_km2 \div 2,
                                      age_years, "SEX_FEMALE", today0)
  IN  IF male.exc # "none" THEN [exc |-> male.exc, list |-> list]
      ELSE IF female.exc # "none" THEN [exc |-> female.exc, list |-> list]
      ELSE [exc |-> "none",
            list |-> Population_add(Population_add(list, male.h), female.h)]

\* Population::purge_dead
Population_purge_dead(list) == SelectSeq(list, LAMBDA h : ~is_dead(h))

\* Every herbivore of the population is advanced by simulate_day, in order;
\* an exception ends the loop.  Result [exc, list, log, total_offspring].
RECURSIVE SimulateDay_herbivores(_, _, _, _)
SimulateDay_herbivores(list, i, day, acc) ==
  IF i > Len(list) \/ acc.exc # "none" THEN acc
  ELSE SimulateDay_herbivores(list, i + 1, day,
         Bind(HerbivoreBase_simulate_day(list[i], day, "env", 0),
              LAMBDA r :
                [exc  |-> r.exc,
                 list |-> Append(acc.list, r.h),
                 log  |-> Append(acc.log,
                            [op |-> "simulate_day", cohort |-> CohortKey(r.h),
                             exc |-> r.exc,
                             offspring_computed |-> r.exc = "none",
                             mortality_applied |-> r.mortality_sum # << >>]),
                 total_offspring |-> acc.total_offspring + r.offspring]))

\* FeedHerbivores: the demands of all herbivores, in order.
\* Result [exc, list, log, demands].
RECURSIVE FeedHerbivores_demands(_, _, _, _)
FeedHerbivores_demands(list, i, available_forage, acc) ==
  IF i > Len(list) \/ acc.exc # "none" THEN acc
  ELSE
    LET r == HerbivoreBase_get_forage_demands(list[i], available_forage)
    IN  FeedHerbivores_demands(list, i + 1, available_forage,
          [exc     |-> r.exc,
           list    |-> Append(acc.list, r.h),
           log     |-> Append(acc.log, Event("get_forage_demands", r.h, r.exc)),
           demands |-> Append(acc.demands, r.demand)])

\* DistributeForageEqually of the final version: every demand in full if the
\* demands fit into the available mass, else scaled by available / demanded.
FeedHerbivores_distribute(available, demands) ==
  [i \in 1..Len(demands) |->
     [ft \in FORAGE_TYPES |->
        LET D == SumSeq([j \in 1..Len(demands) |-> demands[j][ft]])
        IN  IF D <= available[ft] THEN demands[i][ft]
            ELSE (demands[i][ft] * available[ft]) \div D]]

\* Nitrogen in the eaten forage [mg per g forage].
ForageNitrogen(mass) == [ft \in FORAGE_TYPES |-> mass[ft] \div 50]

\* FeedHerbivores: every herbivore eats its portion.  Result [exc, list, log].
RECURSIVE FeedHerbivores_eat(_, _, _, _, _)
FeedHerbivores_eat(list, i, portions, digestibility, acc) ==
  IF i > Len(list) \/ acc.exc # "none" THEN acc
  ELSE
    LET r == HerbivoreBase_eat(list[i], portions[i], digestibility,
                               ForageNitrogen(portions[i]))
    IN  FeedHerbivores_eat(list, i + 1, portions, digestibility,
          [exc  |-> r.exc,
           list |-> Append(acc.list, r.h),
           log  |-> Append(acc.log, Event("eat", r.h, r.exc))])

\* The excreta of all herbivores.  Result [list, log, excreta].
RECURSIVE SimulateDay_excreta(_, _, _)
SimulateDay_excreta(list, i, acc) ==
  IF i > Len(list) THEN acc
  ELSE
    LET r == HerbivoreBase_take_nitrogen_excreta(list[i])
    IN  SimulateDay_excreta(list, i + 1,
          [list    |-> Append(acc.list, r.h),
           log     |-> Append(acc.log, Event("take_nitrogen_excreta", r.h, "none")),
           excreta |-> acc.excreta + r.excreta])

\* The cohorts the loop has handled, followed by those an exception kept
\* it from reaching.
Handled(done, list) == done \o SubSeq(list, Len(done) + 1, Len(list))

Tick(log, exc, habitat_forage, removed, excreta, ingested) ==
  [log |-> log, exc |-> exc, available |-> habitat_forage.mass,
   removed |-> removed, excreta |-> excreta, ingested |-> ingested]

\* The nitrogen the herbivores of a list hold: ingested, bound and excreta.
NitrogenHeld(list) ==
  SumSeq([i \in 1..Len(list) |->
            list[i].nitrogen.ingested + list[i].nitrogen.bound
              + list[i].nitrogen.excreta])

\* A tick that an exception ends: the population as it is at that point.
Aborted(list, log, exc, habitat_forage) ==
  [list |-> list, tick |-> Tick(log, exc, habitat_forage, ForageValue(0), 0, 0)]

\* A tick that an exception in eat() ends: the herbivores before it in the
\* list have eaten.
AbortedEating(before, list, log, exc, habitat_forage) ==
  [list |-> list,
   tick |-> Tick(log, exc, habitat_forage, ForageValue(0), 0,
                 NitrogenHeld(list) - NitrogenHeld(before))]

\* FeedHerbivores, last part: the eaten forage is removed from the habitat,
\* the excreta are returned to it, the output is aggregated.
FeedHerbivores_finish(log, habitat_forage, portions, ingested, nitro) ==
  [list |-> nitro.list,
   tick |-> Tick(log \o <<Stage("remove_eaten_forage", "none")>> \o nitro.log
                   \o <<Stage("add_excreted_nitrogen", "none"),
                        Stage("aggregate", "none")>>,
                 "none", habitat_forage,
                 [ft \in FORAGE_TYPES |->
                    SumSeq([i \in 1..Len(portions) |-> portions[i][ft]])],
                 nitro.excreta, ingested)]

FeedHerbivores_after_eat(list, log, habitat_forage, portions, eaten) ==
  IF eaten.exc # "none"
  THEN AbortedEating(list, Handled(eaten.list, list), log \o eaten.log,
                     eaten.exc, habitat_forage)
  ELSE FeedHerbivores_finish(log \o eaten.log, habitat_forage, portions,
         NitrogenHeld(eaten.list) - NitrogenHeld(list),
         SimulateDay_excreta(eaten.list, 1,
           [list |-> << >>, log |-> << >>, excreta |-> 0]))

FeedHerbivores_after_demands(list, log, habitat_forage, dem, portions) ==
  IF dem.exc # "none"
  THEN Aborted(Handled(dem.list, list), log \o dem.log, dem.exc, habitat_forage)
  ELSE FeedHerbivores_after_eat(dem.list,
         log \o dem.log \o <<Stage("distribute", "none")>>,
         habitat_forage, portions,
         FeedHerbivores_eat(dem.list, 1, portions, habitat_forage.digestibility,
           [exc |-> "none", list |-> << >>, log |-> << >>]))

FeedHerbivores_distributed(list, log, habitat_forage, dem) ==
  FeedHerbivores_after_demands(list, log, habitat_forage, dem,
    FeedHerbivores_distribute(habitat_forage.mass, dem.demands))

\* FeedHerbivores::operator() and the return of the nitrogen, on the
\* population as the herbivores' day left it.  Result [list, tick].
FeedHerbivores(list, log, habitat_forage) ==
  FeedHerbivores_distributed(list,
    Append(log, Stage("get_available_forage", "none")), habitat_forage,
    FeedHerbivores_demands(list, 1, habitat_forage,
      [exc |-> "none", list |-> << >>, log |-> << >>, demands |-> << >>]))

\* SimulateDay after create_offspring: purge_dead, then the feeding.
SimulateDay_after_offspring(log, habitat_forage, created, born) ==
  IF born.exc # "none"
  THEN Aborted(born.list, Append(log, Stage("create_offspring", born.exc)),
               born.exc, habitat_forage)
  ELSE FeedHerbivores(Population_purge_dead(born.list),
         (IF created THEN Append(log, Stage("create_offspring", "none")) ELSE log)
           \o <<Stage("purge_dead", "none")>>,
         habitat_forage)

\* SimulateDay after the loop over the herbivores: the offspring of the day
\* join the population.
SimulateDay_after_herbivores(hft, list, log, habitat_forage, today0, sim) ==
  IF sim.exc # "none"
  THEN Aborted(Handled(sim.list, list), log \o sim.log, sim.exc, habitat_forage)
  ELSE SimulateDay_after_offspring(log \o sim.log, habitat_forage,
         sim.total_offspring > 0,
         IF sim.total_offspring > 0
         THEN Population_create(sim.list, hft, sim.total_offspring, 0, today0)
         ELSE [exc |-> "none", list |-> sim.list])

\* SimulateDay after the establishment.
SimulateDay_after_establishment(hft, day, log, habitat_forage, today0, est) ==
  IF est.exc # "none"
  THEN Aborted(est.list, Append(log, Stage("establish", est.exc)), est.exc,
               habitat_forage)
  ELSE SimulateDay_after_herbivores(hft, est.list,
         Append(log, Stage("establish", "none")), habitat_forage, today0,
         SimulateDay_herbivores(est.list, 1, day,
           [exc |-> "none", list |-> << >>, log |-> << >>,
            total_offspring |-> 0]))

\* The herbivores' part of SimulateDay.  Result [list, tick].
SimulateDay_do_herbivores(unit, day, establish_if_needed, habitat_forage, today0) ==
  SimulateDay_after_establishment(unit.hft, day, <<Stage("init_day", "none")>>,
    habitat_forage, today0,
    IF establish_if_needed /\ unit.population = << >>
    THEN Population_create(<< >>, unit.hft, unit.hft.establishment_density,
                           unit.hft.establishment_age_years, today0)
    ELSE [exc |-> "none", list |-> unit.population])

SimulateDay_result(unit, establish_if_needed, r) ==
  [unit |-> [unit EXCEPT !.population = r.list,
                         !.initial_establishment_done = @ \/ establish_if_needed],
   tick |-> r.tick]

\* SimulateDay::operator()(do_herbivores, establish_if_needed) for the day
\* `day` on one simulation unit.  today0 stands for the uninitialized `today`
\* of the cohorts born on this day.  Result [unit, tick].
SimulateDay(unit, day, do_herbivores, establish_if_needed, habitat_forage, today0) ==
  IF ~do_herbivores
  THEN [unit |-> unit,
        tick |-> Tick(<<Stage("init_day", "none"), Stage("aggregate", "none")>>,
                      "none", habitat_forage, ForageValue(0), 0, 0)]
  ELSE SimulateDay_result(unit, establish_if_needed,
         SimulateDay_do_herbivores(unit, day, establish_if_needed,
                                   habitat_forage, today0))

AvailableMasses == {0, 5000, 1000000}

\* The populations a run starts with: none yet, or one cohort that is two
\* days short of the end of its lifespan and holds no nitrogen.
InitialPopulations(hft, day) ==
  {<< >>} \cup
  {<<[r.h EXCEPT !.today = day - 1]>> :
     r \in {c \in {HerbivoreCohort_establish(hft.lifespan * DaysPerYear - 2,
                                              Scale, hft, "SEX_MALE", 1000)} :
              c.exc = "none"}}

InitDay ==
  /\ HerbIdle /\ WorldIdle /\ SimIdle /\ ExtIdle
  /\ d_day \in {99, 363}
  /\ \E hft \in HftVariants :
       \E population \in InitialPopulations(hft, d_day) :
         d_unit = [hft |-> hft, population |-> population,
                   initial_establishment_done |-> population # << >>]
  /\ d_ticks = 0
  /\ d_last = NoTick
  /\ d_ingested = 0 /\ d_returned = 0

\* One daily tick of the unit, as World::simulate_day starts it.  A tick
\* that ends with an exception ends the run.
Day_simulate ==
  /\ d_ticks < MaxTicks
  /\ d_last.exc = "none"
  /\ \E mass \in AvailableMasses, today0 \in UninitializedToday,
        do_herbivores \in BOOLEAN,
        establish_if_needed \in
          (IF d_unit.initial_establishment_done THEN BOOLEAN ELSE {TRUE}) :
       \E r \in {SimulateDay(d_unit, d_day, do_herbivores, establish_if_needed,
                             [mass |-> ForageValue(mass),
                              digestibility |-> ForageValue(500)],
                             today0)} :
         /\ d_unit' = r.unit
         /\ d_last' = r.tick
         /\ d_ingested' = d_ingested + r.tick.ingested
         /\ d_returned' = d_returned + r.tick.excreta
  /\ d_day' = (d_day + 1) % DaysPerYear
  /\ d_ticks' = d_ticks + 1
  /\ UNCHANGED <<hvars, wvars, svars, xvars>>

NextDay == Day_simulate

SpecDay == InitDay /\ [][NextDay]_vars

(***************************************************************************)
(* Fauna::Simulator of the framework (herbiv_framework.cpp): the daily     *)
(* step over the populations of a habitat and the forage distributor.      *)
(* Masses are in kg/km2.                                                   *)
(***************************************************************************)
MaxCalls == 2
MaxHerbivores == 2
HabitatSizes == {0, 1, 2}
SimDemands == {0, 100}
SimAvailable == {0, 60, 300}
SimDaysOfYear == {-1, 0, 365}
HftListSizes == {0, 1, 2}

\* A herbivore as the distributor sees it: what get_forage_demands returns.
SimHerbivore(demand) == [demand |-> ForageValue(demand)]

SimPopulation(list) == [list |-> list]

RECURSIVE SeqsUpTo(_, _)
SeqsUpTo(S, n) ==
  IF n = 0 THEN {<< >>}
  ELSE LET shorter == SeqsUpTo(S, n - 1)
       IN  shorter \cup {Append(q, x) : q \in shorter, x \in S}

\* The herbivores of all populations: <<population, position in its list>>.
Herbivores(populations) ==
  UNION {{<<p, i>> : i \in DOMAIN populations[p].list} : p \in DOMAIN populations}

\* DistributeForageEqually::operator(): both loops visit every herbivore
\* and do nothing with it.  forage_sum is a parameter passed by value; the
\* result carries the caller's two objects as they are after the call.
DistributeForageEqually(available, populations, forage_distribution, forage_sum) ==
  [forage_distribution |-> forage_distribution, forage_sum |-> forage_sum]

\* Population::create at establishment: a cohort of each sex.
SimPopulation_create(pop, demand) ==
  [pop EXCEPT !.list = @ \o <<SimHerbivore(demand), SimHerbivore(demand)>>]

\* The foraging with a forage_sum that is the available forage.
Simulator_forage_removes_available(available, populations) ==
  [eat_calls |-> EmptyDistribution, remove_calls |-> <<available>>]

\* Simulator::simulate_day, FORAGING: the distribution, one eat call for
\* every entry of it, remove_eaten_forage(forage_sum).
Simulator_forage(available, populations) ==
  Bind(DistributeForageEqually(available, populations, EmptyDistribution,
                               ForageValue(0)),
       LAMBDA d : [eat_calls    |-> d.forage_distribution,
                   remove_calls |-> <<d.forage_sum>>])

\* Simulator::simulate_day.  The loop over the herbivores of a population
\* compares an iterator of one copy of the list with the end of another and
\* never advances it: with a herbivore in the list the call does not return.
\* Result: the set of [outcome, populations, eat_calls, remove_calls] the
\* call can end with; demand is what an established cohort would demand.
Simulator_simulate_day(day_of_year, populations, available, do_herbivores, hftlist_size, demand) ==
  IF day_of_year < 0 \/ day_of_year >= 365
  THEN {[outcome |-> "invalid_argument", populations |-> populations,
         eat_calls |-> EmptyDistribution, remove_calls |-> << >>]}
  ELSE IF ~(do_herbivores /\ hftlist_size > 0)
  THEN {[outcome |-> "returned", populations |-> populations,
         eat_calls |-> EmptyDistribution, remove_calls |-> << >>]}
  ELSE IF populations # << >>
  THEN {[outcome |-> o,
         populations |->
           [populations EXCEPT ![1] =
              IF @.list = << >> THEN SimPopulation_create(@, demand) ELSE @],
         eat_calls |-> EmptyDistribution, remove_calls |-> << >>] :
        o \in {"no_return", "crash"}}
  ELSE {Bind(Simulator_forage(available, populations),
             LAMBDA f : [outcome |-> "returned", populations |-> populations,
                         eat_calls |-> f.eat_calls,
                         remove_calls |-> f.remove_calls])}

InitSim ==
  /\ HerbIdle /\ WorldIdle /\ DayIdle /\ ExtIdle
  /\ s_hftlist_size \in HftListSizes
  /\ \E n \in HabitatSizes :
       s_populations \in
         [1..n -> {SimPopulation(l) :
                     l \in SeqsUpTo({SimHerbivore(d) : d \in SimDemands},
                                    MaxHerbivores)}]
  /\ s_calls = 0
  /\ s_last = NoCall
  /\ s_dist = NoDistribution

\* One call of Simulator::simulate_day on the habitat.  A call that does
\* not return ends the run.
Sim_simulate_day ==
  /\ s_calls < MaxCalls
  /\ s_last.outcome \in {"none", "returned", "invalid_argument"}
  /\ \E day_of_year \in SimDaysOfYear, mass \in SimAvailable,
        do_herbivores \in BOOLEAN, demand \in SimDemands :
       \E r \in Simulator_simulate_day(day_of_year, s_populations,
                                       ForageValue(mass), do_herbivores,
                                       s_hftlist_size, demand) :
         /\ s_populations' = r.populations
         /\ s_last' = [outcome |-> r.outcome, do_herbivores |-> do_herbivores,
                       available |-> ForageValue(mass),
                       eat_calls |-> r.eat_calls,
                       remove_calls |-> r.remove_calls]
  /\ s_calls' = s_calls + 1
  /\ UNCHANGED <<s_hftlist_size, s_dist, hvars, wvars, dvars, xvars>>

\* One call of the distributor as the FORAGING part makes it: an empty
\* distribution and a zero sum are handed in.
Sim_distribute_forage ==
  /\ s_calls < MaxCalls
  /\ s_last.outcome \in {"none", "returned", "invalid_argument"}
  /\ \E mass \in SimAvailable :
       \E d \in {DistributeForageEqually(ForageValue(mass), s_populations,
                                         EmptyDistribution, ForageValue(0))} :
         s_dist' = [called |-> TRUE, available |-> ForageValue(mass),
                    forage_distribution |-> d.forage_distribution,
                    forage_sum |-> d.forage_sum]
  /\ s_calls' = s_calls + 1
  /\ UNCHANGED <<s_hftlist_size, s_populations, s_last, hvars, wvars, dvars, xvars>>

NextSim == Sim_simulate_day \/ Sim_distribute_forage

SpecSim == InitSim /\ [][NextSim]_vars

(***************************************************************************)
(* The calls of simulate_day on a herbivore and on a world, side by side:  *)
(* a run is either one herbivore or one world.                             *)
(***************************************************************************)
InitCalls == InitHerb \/ InitWorld

Calls_herbivore == H_simulate_day

Calls_world == h_op = "idle" /\ NextWorld

NextCalls == Calls_herbivore \/ Calls_world

SpecCalls == InitCalls /\ [][NextCalls]_vars

(***************************************************************************)
(* Two cohorts and merge().                                                *)
(***************************************************************************)
MaxMerges == 2

MergeHfts == {DefaultHft, [DefaultHft EXCEPT !.name = "hft1"]}
MergeAges == {365, 366}
MergeConditions == {200, 500}
MergeDensities == {0, 1000, 3000}

\* The cohorts merge() can be given: every successfully constructed one.
MergeCohorts ==
  {r.h : r \in {c \in {HerbivoreCohort_establish(age, bc, hft, sex, ind) :
                         age \in MergeAges, bc \in MergeConditions,
                         hft \in MergeHfts, sex \in Sexes,
                         ind \in MergeDensities} : c.exc = "none"}}

InitMerge ==
  /\ CoreIdle /\ PopulationsIdle /\ OutputIdle /\ LaterIdle
  /\ m_this \in MergeCohorts /\ m_other \in MergeCohorts
  /\ m_before = << >> /\ m_exc = "none" /\ m_merges = 0

\* m_this.merge(m_other)
M_merge ==
  /\ m_merges < MaxMerges
  /\ \E r \in {HerbivoreCohort_merge(m_this, m_other)} :
       /\ m_this' = r.h /\ m_other' = r.other /\ m_exc' = r.exc
  /\ m_before' = <<m_this, m_other>>
  /\ m_merges' = m_merges + 1
  /\ UNCHANGED <<hvars, wvars, dvars, svars, pvars, ovars, rvars, lvars>>

NextMerge == M_merge

SpecMerge == InitMerge /\ [][NextMerge]_vars

(***************************************************************************)
(* The creation of the populations of a habitat: one per HFT.              *)
(***************************************************************************)
MaxHfts == 3
MaxCreations == 2

HftListNames == {"hft0", "hft1", "hft2"}

\* The lists of HFTs: no name twice.
HftLists ==
  {l \in SeqsUpTo(HftListNames, MaxHfts) :
     \A i, j \in DOMAIN l : i # j => l[i] # l[j]}

HerbivoreTypes == {"HT_COHORT", "HT_INDIVIDUAL", "HT_UNKNOWN"}

\* World::create_simulation_unit: the loop `i < get_hfts().size()` that
\* fills the populations map.  Result [outcome, reads, map].
RECURSIVE World_create_pmap(_, _, _, _)
World_create_pmap(hfts, i, reads, map) ==
  IF ~(i < Len(hfts))
  THEN [outcome |-> IF Len(map) = Len(hfts) THEN "returned" ELSE "assertion",
        reads |-> reads, map |-> map]
  ELSE World_create_pmap(hfts, i + 1, Append(reads, i), Append(map, hfts[i + 1]))

\* What the read of hftlist[i] can give when i is not an index of the
\* list: the list's own range check, a crash, or whatever lies behind the
\* last element.
BeyondTheEnd == {"out_of_range", "crash", "garbage"}

\* Simulator::create_populations: the loop `i <= hftlist.size()`.  Result:
\* the set of [outcome, reads, map] the call can end with.
RECURSIVE Simulator_create_populations(_, _, _, _, _)
Simulator_create_populations(hftlist, herbivore_type, i, reads, map) ==
  IF ~(i <= Len(hftlist))
  THEN {[outcome |-> "returned", reads |-> reads, map |-> map]}
  ELSE IF i >= Len(hftlist)
  THEN UNION {
         IF read # "garbage"
         THEN {[outcome |-> read, reads |-> Append(reads, i), map |-> map]}
         ELSE IF herbivore_type \notin {"HT_COHORT", "HT_INDIVIDUAL"}
         THEN {[outcome |-> "logic_error", reads |-> Append(reads, i),
                map |-> map]}
         ELSE Simulator_create_populations(hftlist, herbivore_type, i + 1,
                Append(reads, i), Append(map, "garbage")) :
         read \in BeyondTheEnd}
  ELSE IF herbivore_type \notin {"HT_COHORT", "HT_INDIVIDUAL"}
  THEN {[outcome |-> "logic_error", reads |-> Append(reads, i), map |-> map]}
  ELSE Simulator_create_populations(hftlist, herbivore_type, i + 1,
         Append(reads, i), Append(map, hftlist[i + 1]))

InitPopulations ==
  /\ CoreIdle /\ MergeIdle /\ OutputIdle /\ LaterIdle
  /\ p_hftlist \in HftLists
  /\ p_herbivore_type \in HerbivoreTypes
  /\ p_op = "none" /\ p_reads = << >> /\ p_map = << >>
  /\ p_outcome = "none" /\ p_calls = 0

Created(op, r) ==
  /\ p_op' = op /\ p_reads' = r.reads /\ p_map' = r.map
  /\ p_outcome' = r.outcome
  /\ p_calls' = p_calls + 1
  /\ UNCHANGED <<p_hftlist, p_herbivore_type, hvars, wvars, dvars, svars, mvars,
                 ovars, rvars, lvars>>

\* World::create_simulation_unit(habitat)
P_create_simulation_unit ==
  /\ p_calls < MaxCreations
  /\ p_outcome # "crash"
  /\ Created("World::create_simulation_unit",
             World_create_pmap(p_hftlist, 0, << >>, << >>))

\* Simulator::create_populations()
P_create_populations ==
  /\ p_calls < MaxCreations
  /\ p_outcome # "crash"
  /\ \E r \in Simulator_create_populations(p_hftlist, p_herbivore_type, 0,
                                            << >>, << >>) :
       Created("Simulator::create_populations", r)

NextPopulations == P_create_simulation_unit \/ P_create_populations

SpecPopulations == InitPopulations /\ [][NextPopulations]_vars

(***************************************************************************)
(* HerbivoryOutput: the output tables, the rows and the reporting          *)
(* interval.  A value of a table is [na, v]: NA_VALUE or a number.         *)
(***************************************************************************)
NA_VALUE == [na |-> TRUE, v |-> 0]

Value(x) == [na |-> FALSE, v |-> x]

\* Integer division and remainder of C++: truncation towards zero.
CppDiv(a, b) == IF a >= 0 THEN a \div b ELSE 0 - ((0 - a) \div b)

CppMod(a, b) == a - b * CppDiv(a, b)

\* Date::ndaymonth
ndaymonth == <<31, 28, 31, 30, 31, 30, 31, 31, 30, 31, 30, 31>>

\* The loop of is_first_day_of_month: the months are subtracted one after
\* the other, beginning with January, while day > 0.
RECURSIVE subtract_months(_, _)
subtract_months(day, m) ==
  IF day > 0 /\ m <= 11 THEN subtract_months(day - ndaymonth[m + 1], m + 1)
  ELSE day

\* A test for the first day of a month that takes every month for 30 days.
is_first_day_of_month_30(day) ==
  IF day < 0 \/ day > 364 THEN [exc |-> "invalid_argument", value |-> FALSE]
  ELSE [exc |-> "none", value |-> day % 30 = 0]

\* GuessOutput::is_first_day_of_month.  Result [exc, value].
is_first_day_of_month(day) ==
  IF day < 0 \/ day > 364 THEN [exc |-> "invalid_argument", value |-> FALSE]
  ELSE [exc |-> "none", value |-> subtract_months(day, 0) = 0]

\* The tables in the order of init_tablefiles(), each with the column
\* selector the constructor gives it.
TABLEFILES ==
  << [name |-> "TBL_HABITAT",                column_selector |-> "CS_HABITAT"],
     [name |-> "TBL_AVAILABLE_FORAGE",       column_selector |-> "CS_FORAGE"],
     [name |-> "TBL_DIGESTIBILITY",          column_selector |-> "CS_FORAGE"],
     [name |-> "TBL_EATEN_FORAGE",           column_selector |-> "CS_FORAGE"],
     [name |-> "TBL_ENERGY_CONTENT",         column_selector |-> "CS_HFT_FORAGE"],
     [name |-> "TBL_ENERGY_INTAKE_PER_IND",  column_selector |-> "CS_HFT_FORAGE"],
     [name |-> "TBL_ENERGY_INTAKE_PER_MASS", column_selector |-> "CS_HFT_FORAGE"],
     [name |-> "TBL_BODYFAT",                column_selector |-> "CS_HFT"],
     [name |-> "TBL_BOUND_NITROGEN",         column_selector |-> "CS_HFT"],
     [name |-> "TBL_EXPENDITURE",            column_selector |-> "CS_HFT"],
     [name |-> "TBL_INDDENS",                column_selector |-> "CS_HFT"],
     [name |-> "TBL_MASSDENS",               column_selector |-> "CS_HFT"],
     [name |-> "TBL_MORT_BACKGROUND",        column_selector |-> "CS_HFT"],
     [name |-> "TBL_MORT_LIFESPAN",          column_selector |-> "CS_HFT"],
     [name |-> "TBL_MORT_STARVATION",        column_selector |-> "CS_HFT"],
     [name |-> "TBL_OFFSPRING",              column_selector |-> "CS_HFT"],
     [name |-> "TBL_EATEN_PER_IND",          column_selector |-> "CS_HFT_FORAGE"],
     [name |-> "TBL_EATEN_PER_MASS",         column_selector |-> "CS_HFT_FORAGE"] >>

TableNames == {TABLEFILES[i].name : i \in DOMAIN TABLEFILES}

column_selector(table) ==
  TABLEFILES[CHOOSE i \in DOMAIN TABLEFILES :
               TABLEFILES[i].name = table].column_selector

\* The concatenation of a sequence of sequences.
RECURSIVE Flatten(_)
Flatten(ss) == IF ss = << >> THEN << >> ELSE Head(ss) \o Flatten(Tail(ss))

\* get_columns with the loops of CS_HFT_FORAGE the other way round: forage
\* types outside, HFTs inside.
get_columns_forage_outside(selector, hftlist, forage_types) ==
  CASE selector = "CS_FORAGE" -> forage_types
    [] selector = "CS_HFT" -> hftlist
    [] selector = "CS_HFT_FORAGE" ->
         Flatten([f \in DOMAIN forage_types |->
                    [h \in DOMAIN hftlist |-> <<hftlist[h], forage_types[f]>>]])
    [] selector = "CS_HABITAT" -> <<"snow_depth">>

\* HerbivoryOutput::get_columns: the captions of the columns, in order.
get_columns(selector, hftlist, forage_types) ==
  CASE selector = "CS_FORAGE" -> forage_types
    [] selector = "CS_HFT" -> hftlist
    [] selector = "CS_HFT_FORAGE" ->
         Flatten([h \in DOMAIN hftlist |->
                    [f \in DOMAIN forage_types |-> <<hftlist[h], forage_types[f]>>]])
    [] selector = "CS_HABITAT" -> <<"snow_depth">>

NoTables == [created |-> FALSE, columns |-> [t \in TableNames |-> << >>]]

\* The loop of init() that creates the tables: an empty table for an HFT
\* table if there is no HFT.
create_output_tables(hftlist, forage_types) ==
  [created |-> TRUE,
   columns |->
     [t \in TableNames |->
        IF Len(hftlist) = 0 /\ column_selector(t) \in {"CS_HFT", "CS_HFT_FORAGE"}
        THEN << >>
        ELSE get_columns(column_selector(t), hftlist, forage_types)]]

\* HerbivoryOutput::init.  Result [exc, interval, tables].
HerbivoryOutput_init(isactive, interval, interval_xtring, hftlist, forage_types, tables) ==
  IF ~isactive THEN [exc |-> "none", interval |-> interval, tables |-> tables]
  ELSE IF interval_xtring \notin {"annual", "monthly", "daily", "decadal"}
  THEN [exc |-> "fail", interval |-> interval, tables |-> tables]
  ELSE
    Bind(CASE interval_xtring = "annual"  -> "ANNUAL"
           [] interval_xtring = "monthly" -> "MONTHLY"
           [] interval_xtring = "daily"   -> "DAILY"
           [] interval_xtring = "decadal" -> "DECADAL",
         LAMBDA new_interval :
           IF ~hftlist.is_set
           THEN [exc |-> "logic_error", interval |-> new_interval, tables |-> tables]
           ELSE [exc |-> "none", interval |-> new_interval,
                 tables |-> create_output_tables(hftlist.list, forage_types)])

\* HerbivoryOutput::is_today_included
is_today_included(date_year, nyear_spinup) == date_year >= nyear_spinup

\* FaunaOut::CombinedData: the number of datapoints merged into it and the
\* data of the HFTs it has data of.
EmptyCombinedData == [datapoint_count |-> 0, hft_data |-> [h \in {} |-> 0]]

WeightedMean(x, y, wx, wy) == (x * wx + y * wy) \div (wx + wy)

\* HerbivoreData::merge: the weighted mean of every variable, the sum of
\* the offspring.
HerbivoreData_merge(a, b, wa, wb) ==
  [inddens   |-> WeightedMean(a.inddens, b.inddens, wa, wb),
   massdens  |-> WeightedMean(a.massdens, b.massdens, wa, wb),
   scalars   |-> [k \in DOMAIN a.scalars |->
                    IF k = "TBL_OFFSPRING" THEN a.scalars[k] + b.scalars[k]
                    ELSE WeightedMean(a.scalars[k], b.scalars[k], wa, wb)],
   mortality |-> [k \in DOMAIN a.mortality \cap DOMAIN b.mortality |->
                    WeightedMean(a.mortality[k], b.mortality[k], wa, wb)],
   forage    |-> [k \in DOMAIN a.forage |->
                    WeightedMean(a.forage[k], b.forage[k], wa, wb)]]

\* CombinedData::merge
CombinedData_merge(a, b) ==
  IF b.datapoint_count = 0 THEN a
  ELSE IF a.datapoint_count = 0 THEN b
  ELSE [datapoint_count |-> a.datapoint_count + b.datapoint_count,
        hft_data |->
          [h \in DOMAIN a.hft_data \cup DOMAIN b.hft_data |->
             IF h \notin DOMAIN b.hft_data THEN a.hft_data[h]
             ELSE IF h \notin DOMAIN a.hft_data THEN b.hft_data[h]
             ELSE HerbivoreData_merge(a.hft_data[h], b.hft_data[h],
                                      a.datapoint_count, b.datapoint_count)]]

\* The loop of outdaily over the simulation units:
\* datapoint.merge(sim_unit.get_output().reset()).
RECURSIVE merge_outputs(_, _, _)
merge_outputs(simulation_units, i, datapoint) ==
  IF i > Len(simulation_units) THEN datapoint
  ELSE merge_outputs(simulation_units, i + 1,
                     CombinedData_merge(datapoint, simulation_units[i]))

\* HerbivoryOutput::set_date_to_period_center.  Result [day, year].
set_date_to_period_center(interval, day, year) ==
  Bind(CASE interval = "DAILY"   -> day
         [] interval = "MONTHLY" -> day - 30 \div 2
         [] interval = "ANNUAL"  -> day - 365 \div 2
         [] interval = "DECADAL" -> day - (10 * 365) \div 2,
       LAMBDA d :
         IF d < 0
         THEN [day |-> 365 + CppMod(d, 365), year |-> year + CppDiv(d, 365) - 1]
         ELSE [day |-> d, year |-> year])

\* The value of an HFT for a table with one column per HFT.
HftTableValue(table, herbidata) ==
  CASE table = "TBL_INDDENS"  -> Value(herbidata.inddens)
    [] table = "TBL_MASSDENS" -> Value(herbidata.massdens)
    [] table = "TBL_MORT_BACKGROUND" ->
         IF "MF_BACKGROUND" \in DOMAIN herbidata.mortality
         THEN Value(herbidata.mortality["MF_BACKGROUND"]) ELSE Value(0)
    [] table = "TBL_MORT_LIFESPAN" ->
         IF "MF_LIFESPAN" \in DOMAIN herbidata.mortality
         THEN Value(herbidata.mortality["MF_LIFESPAN"]) ELSE Value(0)
    [] table = "TBL_MORT_STARVATION" ->
         Value((IF "MF_STARVATION_ILLIUS_OCONNOR_2000" \in DOMAIN herbidata.mortality
                THEN herbidata.mortality["MF_STARVATION_ILLIUS_OCONNOR_2000"] ELSE 0)
               + (IF "MF_STARVATION_THRESHOLD" \in DOMAIN herbidata.mortality
                  THEN herbidata.mortality["MF_STARVATION_THRESHOLD"] ELSE 0))
    [] OTHER -> Value(herbidata.scalars[table])

\* The value of an HFT and a forage type for a table with one column per
\* HFT and forage type.
HftForageTableValue(table, herbidata, ft) ==
  IF table = "TBL_ENERGY_CONTENT" /\ herbidata.forage[<<table, ft>>] = 0
  THEN NA_VALUE
  ELSE Value(herbidata.forage[<<table, ft>>])

\* The tables the branch of write_datapoint for an HFT with data adds one
\* value to, and those it adds one value per forage type to.
HftTablesWritten ==
  {"TBL_BODYFAT", "TBL_BOUND_NITROGEN", "TBL_EXPENDITURE", "TBL_INDDENS",
   "TBL_MASSDENS", "TBL_OFFSPRING", "TBL_MORT_BACKGROUND", "TBL_MORT_LIFESPAN",
   "TBL_MORT_STARVATION"}

HftForageTablesWritten ==
  {"TBL_EATEN_PER_IND", "TBL_EATEN_PER_MASS", "TBL_ENERGY_CONTENT",
   "TBL_ENERGY_INTAKE_PER_IND", "TBL_ENERGY_INTAKE_PER_MASS"}

\* write_datapoint, an HFT with data and a mass density above zero.
write_hft_data(row, herbidata, forage_types) ==
  [t \in DOMAIN row |->
     row[t] \o
       (IF t \in HftTablesWritten THEN <<HftTableValue(t, herbidata)>>
        ELSE IF t \in HftForageTablesWritten
        THEN [f \in DOMAIN forage_types |->
                HftForageTableValue(t, herbidata, forage_types[f])]
        ELSE << >>)]

\* The branch for an HFT without data that adds one missing value to every
\* table of an HFT, whatever the number of forage types.
write_hft_missing_one_value(row, forage_types) ==
  [t \in DOMAIN row |->
     row[t] \o
       (IF column_selector(t) \in {"CS_HFT", "CS_HFT_FORAGE"}
        THEN IF t = "TBL_INDDENS" \/ t = "TBL_MASSDENS" THEN <<Value(0)>>
             ELSE <<NA_VALUE>>
        ELSE << >>)]

\* write_datapoint, an HFT without data or with a mass density of zero: the
\* loop over TABLEFILES.
write_hft_missing(row, forage_types) ==
  [t \in DOMAIN row |->
     row[t] \o
       (IF column_selector(t) \in {"CS_HFT", "CS_HFT_FORAGE"}
        THEN IF t = "TBL_INDDENS" \/ t = "TBL_MASSDENS" THEN <<Value(0)>>
             ELSE IF column_selector(t) = "CS_HFT" THEN <<NA_VALUE>>
             ELSE [f \in DOMAIN forage_types |-> NA_VALUE]
        ELSE << >>)]

\* write_datapoint, the loop over the HFTs of the list.
RECURSIVE write_hfts(_, _, _, _, _)
write_hfts(row, hftlist, i, forage_types, datapoint) ==
  IF i > Len(hftlist) THEN row
  ELSE write_hfts(
         IF hftlist[i] \in DOMAIN datapoint.hft_data
            /\ datapoint.hft_data[hftlist[i]].massdens > 0
         THEN write_hft_data(row, datapoint.hft_data[hftlist[i]], forage_types)
         ELSE write_hft_missing(row, forage_types),
         hftlist, i + 1, forage_types, datapoint)

\* write_datapoint, the habitat table and the forage tables: the habitats
\* of the model report no snow and no forage.
write_habitat(forage_types) ==
  [t \in TableNames |->
     CASE t = "TBL_HABITAT" -> <<Value(0)>>
       [] t = "TBL_AVAILABLE_FORAGE" -> [f \in DOMAIN forage_types |-> Value(0)]
       [] t = "TBL_DIGESTIBILITY" -> [f \in DOMAIN forage_types |-> NA_VALUE]
       [] t = "TBL_EATEN_FORAGE" -> [f \in DOMAIN forage_types |-> Value(0)]
       [] OTHER -> << >>]

\* HerbivoryOutput::write_datapoint: the row it writes, with the values it
\* adds to every table.
write_datapoint(day, year, hftlist, forage_types, datapoint) ==
  [day |-> day, year |-> year, datapoint_count |-> datapoint.datapoint_count,
   values |-> write_hfts(write_habitat(forage_types), hftlist, 1,
                         forage_types, datapoint)]

\* The condition of outdaily for writing on this day.
is_output_day(interval, day, simulation_year) ==
  \/ interval = "DAILY"
  \/ interval = "MONTHLY" /\ is_first_day_of_month(day).value
  \/ interval = "ANNUAL" /\ day = 0
  \/ interval = "DECADAL" /\ simulation_year % 10 = 0 /\ day = 0

\* HerbivoryOutput::outdaily(longitude, latitude, day, simulation_year,
\* calendar_year, simulation_units).  o is the object: [interval, hftlist,
\* forage_types, nyear_spinup]; date_year is the global date.year.
\* Result [exc, simulation_units, rows].
HerbivoryOutput_outdaily(o, date_year, day, simulation_year, calendar_year, simulation_units) ==
  IF day < 0 \/ day >= 365
  THEN [exc |-> "invalid_argument", simulation_units |-> simulation_units,
        rows |-> << >>]
  ELSE IF simulation_year < 0
  THEN [exc |-> "invalid_argument", simulation_units |-> simulation_units,
        rows |-> << >>]
  ELSE IF ~is_today_included(date_year, o.nyear_spinup)
  THEN [exc |-> "none", simulation_units |-> simulation_units, rows |-> << >>]
  ELSE IF ~is_output_day(o.interval, day, simulation_year)
  THEN [exc |-> "none", simulation_units |-> simulation_units, rows |-> << >>]
  ELSE IF ~o.hftlist.is_set
  THEN [exc |-> "assertion",
        simulation_units |->
          [i \in DOMAIN simulation_units |-> EmptyCombinedData],
        rows |-> << >>]
  ELSE
    Bind(set_date_to_period_center(o.interval, day, calendar_year),
         LAMBDA center :
           [exc |-> "none",
            simulation_units |->
              [i \in DOMAIN simulation_units |-> EmptyCombinedData],
            rows |-> <<write_datapoint(center.day, center.year, o.hftlist.list,
                         o.forage_types,
                         merge_outputs(simulation_units, 1, EmptyCombinedData))>>])

\* HerbivoryOutput::outdaily(Gridcell&): the simulation units of the
\* gridcell and the global date.  Result [exc, simulation_units, rows].
HerbivoryOutput_outdaily_gridcell(o, isactive, date, simulation_units) ==
  IF ~isactive
  THEN [exc |-> "none", simulation_units |-> simulation_units, rows |-> << >>]
  ELSE HerbivoryOutput_outdaily(o, date.year, date.day, date.year,
                                date.calendar_year, simulation_units)

(***************************************************************************)
(* The output module through a simulation: set_hftlist, deactivate and     *)
(* init before the first day, then every day the simulation of the day     *)
(* and one call of outdaily.                                               *)
(***************************************************************************)
MaxOutputDays == 366

\* The data a simulation unit adds to its output on one day for one HFT.
DailyHerbivoreData(massdens, base) ==
  [inddens   |-> base + 1,
   massdens  |-> massdens,
   scalars   |-> [t \in {"TBL_BODYFAT", "TBL_BOUND_NITROGEN",
                         "TBL_EXPENDITURE", "TBL_OFFSPRING"} |-> base + 2],
   mortality |-> [k \in {"MF_BACKGROUND"} |-> base + 3],
   forage    |-> [k \in HftForageTablesWritten \X {"grass", "browse"} |->
                    IF k[2] = "grass" THEN base + 10 ELSE base + 20]]

DailyData(hft_data) == [datapoint_count |-> 1, hft_data |-> hft_data]

\* The simulations: the global list of HFTs, the forage types in the order
\* of FORAGE_TYPES, and for every simulation unit the data of one day.
\* There are HFTs with data, with data of a mass density of zero, and
\* without data, and an empty list of HFTs.
OutputSimulations ==
  { [hftlist |-> << >>, forage_types |-> <<"grass">>,
     daily |-> <<DailyData("hft0" :> DailyHerbivoreData(2000, 100))>>],
    [hftlist |-> <<"hft0", "hft1", "hft2">>,
     forage_types |-> <<"grass", "browse">>,
     daily |-> <<DailyData(("hft0" :> DailyHerbivoreData(0, 100))
                           @@ ("hft1" :> DailyHerbivoreData(3000, 200)))>>],
    [hftlist |-> <<"hft0">>, forage_types |-> <<"grass">>,
     daily |-> <<DailyData("hft0" :> DailyHerbivoreData(2000, 100)),
                 DailyData([h \in {} |-> 0])>>] }

\* The values of the parameter of the output interval in the instruction
\* file.
IntervalXtrings == {"annual", "monthly", "daily", "decadal", "", "weekly"}

\* The first day of the simulation and the number of spin-up years: a
\* simulation that begins in its last spin-up year, and one without
\* spin-up that begins in a year divisible by ten.
OutputRuns ==
  { [date |-> [day |-> 0, year |-> 9, calendar_year |-> 1909],
     nyear_spinup |-> 10],
    [date |-> [day |-> 0, year |-> 10, calendar_year |-> 1910],
     nyear_spinup |-> 0] }

OutputCallers == {"GuessOutput", "other"}

NoOutputCall == [op |-> "none", exc |-> "none", rows |-> << >>, before |-> << >>]

InitOutput ==
  /\ CoreIdle /\ MergeIdle /\ PopulationsIdle /\ LaterIdle
  /\ o_isactive = TRUE
  /\ o_interval = "ANNUAL"
  /\ o_interval_xtring \in IntervalXtrings
  /\ \E s \in OutputSimulations :
       /\ o_hftlist = [is_set |-> FALSE, list |-> s.hftlist]
       /\ o_forage_types = s.forage_types
       /\ o_daily = s.daily
       /\ o_units = [i \in DOMAIN s.daily |-> EmptyCombinedData]
  /\ \E run \in OutputRuns :
       o_date = run.date /\ o_nyear_spinup = run.nyear_spinup
  /\ o_caller \in OutputCallers
  /\ o_tables = NoTables
  /\ o_phase = "setup"
  /\ o_days = 0
  /\ o_last = NoOutputCall

OutputObject ==
  [interval |-> o_interval, hftlist |-> o_hftlist,
   forage_types |-> o_forage_types, nyear_spinup |-> o_nyear_spinup]

\* set_hftlist(hftlist)
O_set_hftlist ==
  /\ o_phase = "setup"
  /\ IF o_hftlist.is_set
     THEN /\ o_last' = [NoOutputCall EXCEPT !.op = "set_hftlist",
                                            !.exc = "logic_error"]
          /\ UNCHANGED o_hftlist
     ELSE /\ o_last' = [NoOutputCall EXCEPT !.op = "set_hftlist"]
          /\ o_hftlist' = [o_hftlist EXCEPT !.is_set = TRUE]
  /\ UNCHANGED <<o_isactive, o_interval, o_interval_xtring, o_forage_types,
                 o_nyear_spinup, o_tables, o_date, o_units, o_daily, o_phase,
                 o_days, o_caller>>
  /\ UNCHANGED <<hvars, wvars, dvars, svars, mvars, pvars, rvars, lvars>>

\* deactivate()
O_deactivate ==
  /\ o_phase \in {"setup", "initialized"}
  /\ o_isactive' = FALSE
  /\ o_last' = [NoOutputCall EXCEPT !.op = "deactivate"]
  /\ UNCHANGED <<o_interval, o_interval_xtring, o_hftlist, o_forage_types,
                 o_nyear_spinup, o_tables, o_date, o_units, o_daily, o_phase,
                 o_days, o_caller>>
  /\ UNCHANGED <<hvars, wvars, dvars, svars, mvars, pvars, rvars, lvars>>

\* init(): fail() ends the program.
O_init ==
  /\ o_phase = "setup"
  /\ \E r \in {HerbivoryOutput_init(o_isactive, o_interval, o_interval_xtring,
                                    o_hftlist, o_forage_types, o_tables)} :
       /\ o_interval' = r.interval
       /\ o_tables' = r.tables
       /\ o_last' = [NoOutputCall EXCEPT !.op = "init", !.exc = r.exc]
       /\ o_phase' = IF r.exc = "none" THEN "initialized" ELSE "ended"
  /\ UNCHANGED <<o_isactive, o_interval_xtring, o_hftlist, o_forage_types,
                 o_nyear_spinup, o_date, o_units, o_daily, o_days, o_caller>>
  /\ UNCHANGED <<hvars, wvars, dvars, svars, mvars, pvars, rvars, lvars>>

\* Date::next
Date_next(date) ==
  IF date.day = 364
  THEN [day |-> 0, year |-> date.year + 1,
        calendar_year |-> date.calendar_year + 1]
  ELSE [date EXCEPT !.day = @ + 1]

\* The simulation of a day: after the first day the date advances, and
\* every simulation unit adds the data of the day to its output.
O_simulate_day ==
  /\ o_phase \in {"initialized", "written"}
  /\ o_days < MaxOutputDays
  /\ o_date' = IF o_phase = "written" THEN Date_next(o_date) ELSE o_date
  /\ o_units' = [i \in DOMAIN o_units |->
                   CombinedData_merge(o_units[i], o_daily[i])]
  /\ o_phase' = "simulated"
  /\ o_days' = o_days + 1
  /\ o_last' = NoOutputCall
  /\ UNCHANGED <<o_isactive, o_interval, o_interval_xtring, o_hftlist,
                 o_forage_types, o_nyear_spinup, o_tables, o_daily, o_caller>>
  /\ UNCHANGED <<hvars, wvars, dvars, svars, mvars, pvars, rvars, lvars>>

OutputCalled(op, r) ==
  /\ o_units' = r.simulation_units
  /\ o_last' = [op |-> op, exc |-> r.exc, rows |-> r.rows, before |-> o_units]
  /\ o_phase' = IF r.exc = "none" THEN "written" ELSE o_phase
  /\ UNCHANGED <<o_isactive, o_interval, o_interval_xtring, o_hftlist,
                 o_forage_types, o_nyear_spinup, o_tables, o_date, o_daily,
                 o_days, o_caller>>
  /\ UNCHANGED <<hvars, wvars, dvars, svars, mvars, pvars, rvars, lvars>>

\* outdaily(gridcell)
O_outdaily_gridcell ==
  /\ o_phase = "simulated"
  /\ o_caller = "GuessOutput"
  /\ \E r \in {HerbivoryOutput_outdaily_gridcell(OutputObject, o_isactive,
                                                 o_date, o_units)} :
       OutputCalled("outdaily(Gridcell)", r)

\* outdaily(longitude, latitude, day, simulation_year, calendar_year,
\* simulation_units) with the date of today, with a day out of range, or
\* with a negative year.
O_outdaily ==
  /\ o_phase = "simulated"
  /\ o_caller = "other"
  /\ \E a \in {<<o_date.day, o_date.year>>, <<365, o_date.year>>,
               <<0 - 1, o_date.year>>, <<o_date.day, 0 - 1>>} :
       \E r \in {HerbivoryOutput_outdaily(OutputObject, o_date.year, a[1], a[2],
                                          o_date.calendar_year, o_units)} :
         OutputCalled("outdaily", r)

NextOutput ==
  \/ O_set_hftlist
  \/ O_deactivate
  \/ O_init
  \/ O_simulate_day
  \/ O_outdaily_gridcell
  \/ O_outdaily

SpecOutput == InitOutput /\ [][NextOutput]_vars

(***************************************************************************)
(* InsfileReader: the instruction file is a record [global, group, hft]:   *)
(* the values of the qualified keys outside the arrays of tables, the      *)
(* sequence of group tables and the sequence of HFT tables.  A table is a  *)
(* function from qualified keys to values.                                 *)
(***************************************************************************)
\* ::tolower on the strings of the instruction files of the model.
LowercaseTable ==
  ("ALLOMETRIC" :> "allometric")
  @@ ("ANNUAL" :> "annual")
  @@ ("Allometric" :> "allometric")
  @@ ("Annual" :> "annual")
  @@ ("BACKGROUND" :> "background")
  @@ ("BOGUS" :> "bogus")
  @@ ("BRADLEYDEAVERS1980" :> "bradleydeavers1980")
  @@ ("Background" :> "background")
  @@ ("Bogus" :> "bogus")
  @@ ("BradleyDeavers1980" :> "bradleydeavers1980")
  @@ ("COHORT" :> "cohort")
  @@ ("CONSTANTMAXIMUM" :> "constantmaximum")
  @@ ("CUYLEROERITSLAND2004" :> "cuyleroeritsland2004")
  @@ ("Cohort" :> "cohort")
  @@ ("ConstantMaximum" :> "constantmaximum")
  @@ ("CuylerOeritsland2004" :> "cuyleroeritsland2004")
  @@ ("DAILY" :> "daily")
  @@ ("DECADAL" :> "decadal")
  @@ ("DEFAULT" :> "default")
  @@ ("DIGESTIBILITY" :> "digestibility")
  @@ ("Daily" :> "daily")
  @@ ("Decadal" :> "decadal")
  @@ ("Default" :> "default")
  @@ ("EQUALLY" :> "equally")
  @@ ("Equally" :> "equally")
  @@ ("FIXEDFRACTION" :> "fixedfraction")
  @@ ("FixedFraction" :> "fixedfraction")
  @@ ("GENERALFUNCTIONALRESPONSE" :> "generalfunctionalresponse")
  @@ ("GeneralFunctionalResponse" :> "generalfunctionalresponse")
  @@ ("HINDGUT" :> "hindgut")
  @@ ("Hindgut" :> "hindgut")
  @@ ("ILLIUSGORDON1992" :> "illiusgordon1992")
  @@ ("ILLIUSOCONNOR2000" :> "illiusoconnor2000")
  @@ ("INDIVIDUAL" :> "individual")
  @@ ("IlliusGordon1992" :> "illiusgordon1992")
  @@ ("IlliusOConnor2000" :> "illiusoconnor2000")
  @@ ("Individual" :> "individual")
  @@ ("LIFESPAN" :> "lifespan")
  @@ ("LINEAR" :> "linear")
  @@ ("Lifespan" :> "lifespan")
  @@ ("Linear" :> "linear")
  @@ ("MASS_DENSITY_PER_HFT" :> "mass_density_per_hft")
  @@ ("MONTHLY" :> "monthly")
  @@ ("Monthly" :> "monthly")
  @@ ("NONE" :> "none")
  @@ ("None" :> "none")
  @@ ("PUREGRAZER" :> "puregrazer")
  @@ ("PureGrazer" :> "puregrazer")
  @@ ("RUMINANT" :> "ruminant")
  @@ ("Ruminant" :> "ruminant")
  @@ ("STARVATIONILLIUSOCONNOR2000" :> "starvationilliusoconnor2000")
  @@ ("STARVATIONTHRESHOLD" :> "starvationthreshold")
  @@ ("StarvationIlliusOConnor2000" :> "starvationilliusoconnor2000")
  @@ ("StarvationThreshold" :> "starvationthreshold")
  @@ ("TAYLOR1981" :> "taylor1981")
  @@ ("TEXTTABLES" :> "texttables")
  @@ ("THERMOREGULATION" :> "thermoregulation")
  @@ ("Taylor1981" :> "taylor1981")
  @@ ("TextTables" :> "texttables")
  @@ ("Thermoregulation" :> "thermoregulation")
  @@ ("ZHU2018" :> "zhu2018")
  @@ ("Zhu2018" :> "zhu2018")

\* The parameters of an HFT in the order in which read_hft reads them: the
\* key, whether it is a plain value, an option or an array of options,
\* whether its absence is an error, the options of the chain of
\* comparisons, the options handed to invalid_option, and the option of an
\* earlier parameter on which the block depends (parent "" = always).
HftParameters ==
  << [key |-> "body_fat.maximum", kind |-> "value", mandatory |-> TRUE,
      accepted |-> << >>,
      listed |-> {},
      parent |-> "", selected |-> {}],
     [key |-> "body_fat.maximum_daily_gain", kind |-> "value", mandatory |-> TRUE,
      accepted |-> << >>,
      listed |-> {},
      parent |-> "", selected |-> {}],
     [key |-> "body_mass.female", kind |-> "value", mandatory |-> TRUE,
      accepted |-> << >>,
      listed |-> {},
      parent |-> "", selected |-> {}],
     [key |-> "body_mass.male", kind |-> "value", mandatory |-> TRUE,
      accepted |-> << >>,
      listed |-> {},
      parent |-> "", selected |-> {}],
     [key |-> "digestion.limit", kind |-> "enum", mandatory |-> TRUE,
      accepted |-> <<"None", "Allometric", "FixedFraction", "IlliusGordon1992">>,
      listed |-> {"None", "Allometric", "FixedFraction", "IlliusGordon1992"},
      parent |-> "", selected |-> {}],
     [key |-> "digestion.type", kind |-> "enum", mandatory |-> TRUE,
      accepted |-> <<"Hindgut", "Ruminant">>,
      listed |-> {"Hindgut", "Ruminant"},
      parent |-> "", selected |-> {}],
     [key |-> "establishment.age_range.first", kind |-> "value", mandatory |-> TRUE,
      accepted |-> << >>,
      listed |-> {},
      parent |-> "", selected |-> {}],
     [key |-> "establishment.age_range.last", kind |-> "value", mandatory |-> TRUE,
      accepted |-> << >>,
      listed |-> {},
      parent |-> "", selected |-> {}],
     [key |-> "establishment.density", kind |-> "value", mandatory |-> TRUE,
      accepted |-> << >>,
      listed |-> {},
      parent |-> "", selected |-> {}],
     [key |-> "expenditure.components", kind |-> "array", mandatory |-> TRUE,
      accepted |-> <<"Allometric", "Taylor1981", "Thermoregulation", "Zhu2018">>,
      listed |-> {"Allometric", "Taylor1981", "Thermoregulation", "Zhu2018"},
      parent |-> "", selected |-> {}],
     [key |-> "foraging.diet_composer", kind |-> "enum", mandatory |-> TRUE,
      accepted |-> <<"PureGrazer">>,
      listed |-> {"PureGrazer"},
      parent |-> "", selected |-> {}],
     [key |-> "foraging.net_energy_model", kind |-> "enum", mandatory |-> TRUE,
      accepted |-> <<"Default">>,
      listed |-> {"Default"},
      parent |-> "", selected |-> {}],
     [key |-> "hft.mortality.factors", kind |-> "array", mandatory |-> FALSE,
      accepted |-> <<"Background", "Lifespan", "StarvationIlliusOConnor2000", "StarvationThreshold">>,
      listed |-> {"Background", "Lifespan", "StarvationIlliusOConnor2000", "StarvationThreshold"},
      parent |-> "", selected |-> {}],
     [key |-> "reproduction.model", kind |-> "enum", mandatory |-> TRUE,
      accepted |-> <<"None", "ConstantMaximum", "IlliusOConnor2000", "Linear">>,
      listed |-> {"None", "ConstantMaximum", "IlliusOConnor2000", "Linear"},
      parent |-> "", selected |-> {}],
     [key |-> "foraging.limits", kind |-> "array", mandatory |-> FALSE,
      accepted |-> <<"GeneralFunctionalResponse", "IlliusOConnor2000">>,
      listed |-> {"GeneralFunctionalResponse", "IlliusOConnor2000"},
      parent |-> "", selected |-> {}],
     [key |-> "body_fat.birth", kind |-> "value", mandatory |-> TRUE,
      accepted |-> << >>,
      listed |-> {},
      parent |-> "reproduction.model", selected |-> {"ConstantMaximum", "IlliusOConnor2000", "Linear"}],
     [key |-> "body_fat.deviation", kind |-> "value", mandatory |-> TRUE,
      accepted |-> << >>,
      listed |-> {},
      parent |-> "hft.mortality.factors", selected |-> {"StarvationIlliusOConnor2000"}],
     [key |-> "body_mass.birth", kind |-> "value", mandatory |-> TRUE,
      accepted |-> << >>,
      listed |-> {},
      parent |-> "reproduction.model", selected |-> {"ConstantMaximum", "IlliusOConnor2000", "Linear"}],
     [key |-> "breeding_season.length", kind |-> "value", mandatory |-> TRUE,
      accepted |-> << >>,
      listed |-> {},
      parent |-> "reproduction.model", selected |-> {"ConstantMaximum", "IlliusOConnor2000", "Linear"}],
     [key |-> "breeding_season.start", kind |-> "value", mandatory |-> TRUE,
      accepted |-> << >>,
      listed |-> {},
      parent |-> "reproduction.model", selected |-> {"ConstantMaximum", "IlliusOConnor2000", "Linear"}],
     [key |-> "digestion.fixed_fraction", kind |-> "value", mandatory |-> TRUE,
      accepted |-> << >>,
      listed |-> {},
      parent |-> "digestion.limit", selected |-> {"FixedFraction"}],
     [key |-> "digestion.allometric.coefficient", kind |-> "value", mandatory |-> TRUE,
      accepted |-> << >>,
      listed |-> {},
      parent |-> "digestion.limit", selected |-> {"Allometric"}],
     [key |-> "digestion.allometric.exponent", kind |-> "value", mandatory |-> TRUE,
      accepted |-> << >>,
      listed |-> {},
      parent |-> "digestion.limit", selected |-> {"Allometric"}],
     [key |-> "expenditure.allometric.coefficient", kind |-> "value", mandatory |-> TRUE,
      accepted |-> << >>,
      listed |-> {},
      parent |-> "expenditure.components", selected |-> {"Allometric"}],
     [key |-> "expenditure.allometric.exponent", kind |-> "value", mandatory |-> TRUE,
      accepted |-> << >>,
      listed |-> {},
      parent |-> "expenditure.components", selected |-> {"Allometric"}],
     [key |-> "foraging.half_max_intake_density", kind |-> "value", mandatory |-> TRUE,
      accepted |-> << >>,
      listed |-> {},
      parent |-> "foraging.limits", selected |-> {"GeneralFunctionalResponse", "IlliusOConnor2000"}],
     [key |-> "life_history.lifespan", kind |-> "value", mandatory |-> TRUE,
      accepted |-> << >>,
      listed |-> {},
      parent |-> "hft.mortality.factors", selected |-> {"Lifespan"}],
     [key |-> "life_history.physical_maturity_female", kind |-> "value", mandatory |-> TRUE,
      accepted |-> << >>,
      listed |-> {},
      parent |-> "reproduction.model", selected |-> {"ConstantMaximum", "IlliusOConnor2000", "Linear"}],
     [key |-> "life_history.physical_maturity_male", kind |-> "value", mandatory |-> TRUE,
      accepted |-> << >>,
      listed |-> {},
      parent |-> "reproduction.model", selected |-> {"ConstantMaximum", "IlliusOConnor2000", "Linear"}],
     [key |-> "life_history.sexual_maturity", kind |-> "value", mandatory |-> TRUE,
      accepted |-> << >>,
      listed |-> {},
      parent |-> "reproduction.model", selected |-> {"ConstantMaximum", "IlliusOConnor2000", "Linear"}],
     [key |-> "mortality.adult_rate", kind |-> "value", mandatory |-> TRUE,
      accepted |-> << >>,
      listed |-> {},
      parent |-> "hft.mortality.factors", selected |-> {"Background"}],
     [key |-> "mortality.juvenile_rate", kind |-> "value", mandatory |-> TRUE,
      accepted |-> << >>,
      listed |-> {},
      parent |-> "hft.mortality.factors", selected |-> {"Background"}],
     [key |-> "mortality.minimum_density_threshold", kind |-> "value", mandatory |-> TRUE,
      accepted |-> << >>,
      listed |-> {},
      parent |-> "reproduction.model", selected |-> {"ConstantMaximum", "IlliusOConnor2000", "Linear"}],
     [key |-> "mortality.shift_body_condition_for_starvation", kind |-> "value", mandatory |-> TRUE,
      accepted |-> << >>,
      listed |-> {},
      parent |-> "hft.mortality.factors", selected |-> {"StarvationThreshold", "StarvationIlliusOConnor2000"}],
     [key |-> "reproduction.annual_maximum", kind |-> "value", mandatory |-> TRUE,
      accepted |-> << >>,
      listed |-> {},
      parent |-> "reproduction.model", selected |-> {"ConstantMaximum", "IlliusOConnor2000", "Linear"}],
     [key |-> "reproduction.gestation_length", kind |-> "value", mandatory |-> TRUE,
      accepted |-> << >>,
      listed |-> {},
      parent |-> "reproduction.model", selected |-> {"ConstantMaximum", "IlliusOConnor2000", "Linear"}],
     [key |-> "thermoregulation.conductance", kind |-> "enum", mandatory |-> TRUE,
      accepted |-> <<"BradleyDeavers1980", "CuylerOeritsland2004">>,
      listed |-> {"BradleyDeavers1980", "CuylerOeritsland2004"},
      parent |-> "expenditure.components", selected |-> {"Thermoregulation"}],
     [key |-> "thermoregulation.core_temperature", kind |-> "value", mandatory |-> TRUE,
      accepted |-> << >>,
      listed |-> {},
      parent |-> "expenditure.components", selected |-> {"Thermoregulation"}] >>

\* lowercase(s)
lowercase(s) == IF s \in DOMAIN LowercaseTable THEN LowercaseTable[s] ELSE s

NoInsfileError == [exc |-> "none", key |-> "", value |-> "", valid_options |-> {}]

InsfileError(exc, key) == [exc |-> exc, key |-> key, value |-> "", valid_options |-> {}]

\* The invalid_option exception with the message of construct_message:
\* the key, the value and the valid options.
invalid_option(key, value, valid_options) ==
  IF valid_options = {} THEN InsfileError("logic_error", key)
  ELSE [exc |-> "invalid_option", key |-> key, value |-> value,
        valid_options |-> valid_options]

NotFound == [exc |-> "none", name |-> "", found |-> FALSE, value |-> << >>]

\* InsfileReader::get_group_table.  Result [exc, found, table].
RECURSIVE get_group_table(_, _, _)
get_group_table(ins, group_name, i) ==
  IF i > Len(ins.group) THEN [exc |-> "none", found |-> FALSE, table |-> << >>]
  ELSE IF "name" \notin DOMAIN ins.group[i]
  THEN [exc |-> "missing_parameter", found |-> FALSE, table |-> << >>]
  ELSE IF ins.group[i]["name"] = group_name
  THEN [exc |-> "none", found |-> TRUE, table |-> ins.group[i]]
  ELSE get_group_table(ins, group_name, i + 1)

\* A search through the groups that stops at the first group whose table is
\* not found and reports the parameter as not found.
RECURSIVE find_in_groups_lenient(_, _, _, _)
find_in_groups_lenient(ins, groups, i, key) ==
  IF i > Len(groups) THEN NotFound
  ELSE Bind(get_group_table(ins, groups[i], 1),
            LAMBDA g :
              IF g.exc # "none"
              THEN [exc |-> g.exc, name |-> "group.name", found |-> FALSE,
                    value |-> << >>]
              ELSE IF ~g.found THEN NotFound
              ELSE IF key \in DOMAIN g.table
              THEN [exc |-> "none", name |-> "", found |-> TRUE,
                    value |-> g.table[key]]
              ELSE find_in_groups_lenient(ins, groups, i + 1, key))

\* The loop of find_hft_parameter over the groups of the HFT.
RECURSIVE find_in_groups(_, _, _, _)
find_in_groups(ins, groups, i, key) ==
  IF i > Len(groups) THEN NotFound
  ELSE Bind(get_group_table(ins, groups[i], 1),
            LAMBDA g :
              IF g.exc # "none"
              THEN [exc |-> g.exc, name |-> "group.name", found |-> FALSE,
                    value |-> << >>]
              ELSE IF ~g.found
              THEN [exc |-> "missing_group", name |-> groups[i],
                    found |-> FALSE, value |-> << >>]
              ELSE IF key \in DOMAIN g.table
              THEN [exc |-> "none", name |-> "", found |-> TRUE,
                    value |-> g.table[key]]
              ELSE find_in_groups(ins, groups, i + 1, key))

\* What both find_hft_parameter and find_hft_array_parameter do after the
\* search: the error for a mandatory parameter, an empty value otherwise.
found_or_missing(r, key, mandatory) ==
  IF r.exc # "none" \/ r.found THEN r
  ELSE IF mandatory
  THEN [exc |-> "missing_hft_parameter", name |-> key, found |-> FALSE,
        value |-> << >>]
  ELSE NotFound

\* InsfileReader::find_hft_parameter.  Result [exc, name, found, value].
find_hft_parameter(ins, hft_table, key, mandatory) ==
  IF key \in DOMAIN hft_table
  THEN [exc |-> "none", name |-> "", found |-> TRUE, value |-> hft_table[key]]
  ELSE found_or_missing(
         IF "groups" \in DOMAIN hft_table
         THEN find_in_groups(ins, hft_table["groups"], 1, key)
         ELSE NotFound,
         key, mandatory)

\* InsfileReader::find_hft_array_parameter.  Result [exc, name, found, value].
find_hft_array_parameter(ins, hft_table, key, mandatory) ==
  IF key \in DOMAIN hft_table
  THEN [exc |-> "none", name |-> "", found |-> TRUE, value |-> hft_table[key]]
  ELSE found_or_missing(
         IF "groups" \in DOMAIN hft_table
         THEN find_in_groups(ins, hft_table["groups"], 1, key)
         ELSE NotFound,
         key, mandatory)

\* A comparison of an option that minds the case of the letters.
parse_option_case_sensitive(p, s) ==
  IF \E k \in DOMAIN p.accepted : s = p.accepted[k]
  THEN [error |-> NoInsfileError, value |-> s]
  ELSE [error |-> invalid_option(p.key, s, p.listed), value |-> ""]

\* The chain of comparisons of an option: the option whose lowercase
\* equals the lowercase of the value.  Result [exc, value].
parse_option(p, s) ==
  IF \E k \in DOMAIN p.accepted : lowercase(s) = lowercase(p.accepted[k])
  THEN [error |-> NoInsfileError,
        value |-> p.accepted[CHOOSE k \in DOMAIN p.accepted :
                               /\ lowercase(s) = lowercase(p.accepted[k])
                               /\ \A j \in 1..(k - 1) :
                                    lowercase(s) # lowercase(p.accepted[j])]]
  ELSE [error |-> invalid_option(p.key, s, p.listed), value |-> ""]

\* The loop over an array of options: the set of the options, or the
\* error of the first string that is none.
RECURSIVE parse_options(_, _, _, _)
parse_options(p, array, i, set) ==
  IF i > Len(array) THEN [error |-> NoInsfileError, value |-> set]
  ELSE Bind(parse_option(p, array[i]),
            LAMBDA o :
              IF o.error.exc # "none" THEN [error |-> o.error, value |-> {}]
              ELSE parse_options(p, array, i + 1, set \cup {o.value}))

\* One block of a reading function, given the result of the search for the
\* key: the target with the parameter set.  Result [error, target].
read_parameter(p, r, target) ==
  IF r.exc # "none"
  THEN [error |-> InsfileError(r.exc, r.name), target |-> target]
  ELSE IF ~r.found
  THEN [error |-> NoInsfileError,
        target |-> IF p.kind = "array" THEN (p.key :> {}) @@ target
                   ELSE target]
  ELSE IF p.kind = "value"
  THEN [error |-> NoInsfileError, target |-> (p.key :> r.value) @@ target]
  ELSE Bind(IF p.kind = "enum" THEN parse_option(p, r.value)
            ELSE parse_options(p, r.value, 1, {}),
            LAMBDA o : [error |-> o.error,
                        target |-> IF o.error.exc = "none"
                                   THEN (p.key :> o.value) @@ target
                                   ELSE target])

\* The condition of a block of dependent parameters: the parameter read
\* before has, or holds, one of the options.
is_selected(p, hft) ==
  \/ p.parent = ""
  \/ /\ p.parent \in DOMAIN hft
     /\ IF \E k \in DOMAIN HftParameters :
             HftParameters[k].key = p.parent /\ HftParameters[k].kind = "array"
        THEN hft[p.parent] \cap p.selected # {}
        ELSE hft[p.parent] \in p.selected

\* The blocks of read_hft after the name, one after the other.
\* Result [error, target].
RECURSIVE read_hft_parameters(_, _, _, _)
read_hft_parameters(ins, table, i, hft) ==
  IF i > Len(HftParameters) THEN [error |-> NoInsfileError, target |-> hft]
  ELSE IF ~is_selected(HftParameters[i], hft)
  THEN read_hft_parameters(ins, table, i + 1, hft)
  ELSE Bind(read_parameter(
              HftParameters[i],
              IF HftParameters[i].kind = "array"
              THEN find_hft_array_parameter(ins, table, HftParameters[i].key,
                                            HftParameters[i].mandatory)
              ELSE find_hft_parameter(ins, table, HftParameters[i].key,
                                      HftParameters[i].mandatory),
              hft),
            LAMBDA r : IF r.error.exc # "none" THEN r
                       ELSE read_hft_parameters(ins, table, i + 1, r.target))

\* InsfileReader::read_hft.  Result [error, target].
read_hft(ins, table) ==
  IF "name" \notin DOMAIN table
  THEN [error |-> InsfileError("missing_parameter", "hft.name"),
        target |-> << >>]
  ELSE read_hft_parameters(ins, table, 1, "name" :> table["name"])

\* ins->get_qualified_as(key) of a reading function of the global tables.
find_global_parameter(ins, key, mandatory) ==
  IF key \in DOMAIN ins.global
  THEN [exc |-> "none", name |-> "", found |-> TRUE, value |-> ins.global[key]]
  ELSE IF mandatory
  THEN [exc |-> "missing_parameter", name |-> key, found |-> FALSE,
        value |-> << >>]
  ELSE NotFound

\* The blocks of a reading function of the global tables.
RECURSIVE read_global_parameters(_, _, _, _)
read_global_parameters(ins, parameters, i, params) ==
  IF i > Len(parameters) THEN [error |-> NoInsfileError, target |-> params]
  ELSE Bind(read_parameter(
              parameters[i],
              find_global_parameter(ins, parameters[i].key,
                                    parameters[i].mandatory),
              params),
            LAMBDA r : IF r.error.exc # "none" THEN r
                       ELSE read_global_parameters(ins, parameters, i + 1,
                                                   r.target))

GlobalParameter(key, kind, mandatory, accepted, listed) ==
  [key |-> key, kind |-> kind, mandatory |-> mandatory, accepted |-> accepted,
   listed |-> listed, parent |-> "", selected |-> {}]

\* InsfileReader::read_table_output
OutputParameters ==
  << GlobalParameter("output.format", "enum", TRUE, <<"TextTables">>,
                     {"TextTables"}),
     GlobalParameter("output.interval", "enum", TRUE,
                     <<"Daily", "Monthly", "Annual", "Decadal">>,
                     {"Daily", "Monthly", "Decadal", "Annual"}) >>

\* InsfileReader::read_table_output_text_tables
TextTablesParameters ==
  << GlobalParameter("output.text_tables.directory", "value", TRUE, << >>, {}),
     GlobalParameter("output.text_tables.precision", "value", FALSE, << >>, {}),
     GlobalParameter("output.text_tables.tables", "array", FALSE,
                     <<"digestibility", "mass_density_per_hft">>,
                     {"digestibility", "mass_density_per_hft"}) >>

\* InsfileReader::read_table_simulation
SimulationParameters ==
  << GlobalParameter("simulation.forage_distribution", "enum", FALSE,
                     <<"Equally">>, {"Equally"}),
     GlobalParameter("simulation.habitat_area_km2", "value", FALSE, << >>, {}),
     GlobalParameter("simulation.establishment_interval", "value", FALSE,
                     << >>, {}),
     GlobalParameter("simulation.herbivore_type", "enum", TRUE,
                     <<"Cohort", "Individual">>, {"Cohort", "Individual"}),
     GlobalParameter("simulation.one_hft_per_habitat", "value", FALSE,
                     << >>, {}) >>

(***************************************************************************)
(* The construction of an InsfileReader from an instruction file, one      *)
(* reading function after the other, and calls of the two search           *)
(* functions on the first HFT table of the file.                           *)
(***************************************************************************)
SetKey(table, key, value) == (key :> value) @@ table

RemoveKey(table, key) == [k \in DOMAIN table \ {key} |-> table[k]]

\* A complete instruction file: one HFT without mortality factors and
\* without reproduction, which takes one parameter from its group.
BaseGlobal ==
  ("output.format" :> "TextTables") @@ ("output.interval" :> "Annual")
  @@ ("output.text_tables.directory" :> "out")
  @@ ("simulation.herbivore_type" :> "Cohort")

BaseGroup == ("name" :> "g1") @@ ("body_mass.male" :> 2)

BaseHft ==
  ("name" :> "hft1") @@ ("groups" :> <<"g1">>)
  @@ ("body_fat.maximum" :> 1) @@ ("body_fat.maximum_daily_gain" :> 1)
  @@ ("body_mass.female" :> 1)
  @@ ("digestion.limit" :> "None") @@ ("digestion.type" :> "Ruminant")
  @@ ("establishment.age_range.first" :> 1)
  @@ ("establishment.age_range.last" :> 1)
  @@ ("establishment.density" :> 1)
  @@ ("expenditure.components" :> <<"Taylor1981">>)
  @@ ("foraging.diet_composer" :> "PureGrazer")
  @@ ("foraging.net_energy_model" :> "Default")
  @@ ("reproduction.model" :> "None")

BaseInsfile == [global |-> BaseGlobal, group |-> <<BaseGroup>>, hft |-> <<BaseHft>>]

WithHft(ins, table) == [ins EXCEPT !.hft = <<table>>]

\* A value of the kind of a parameter that the reader accepts.
ValidValue(p) ==
  CASE p.kind = "value" -> 1
    [] p.kind = "enum"  -> p.accepted[1]
    [] p.kind = "array" -> <<p.accepted[1]>>

\* The value of a parameter that selects an option.
Selecting(key, option) ==
  IF \E k \in DOMAIN HftParameters :
       HftParameters[k].key = key /\ HftParameters[k].kind = "array"
  THEN <<option>> ELSE option

\* The HFT table with the parent of parameter p set to the option and with
\* every parameter that depends on that option.
RECURSIVE WithDependents(_, _, _, _)
WithDependents(table, parent, option, i) ==
  IF i > Len(HftParameters) THEN SetKey(table, parent, Selecting(parent, option))
  ELSE WithDependents(
         IF HftParameters[i].parent = parent /\ option \in HftParameters[i].selected
         THEN SetKey(table, HftParameters[i].key, ValidValue(HftParameters[i]))
         ELSE table,
         parent, option, i + 1)

Strings == DOMAIN LowercaseTable \cup {LowercaseTable[s] : s \in DOMAIN LowercaseTable}

\* The spellings of the options of a parameter, and strings that are no
\* option of it.
Spellings(p) ==
  {s \in Strings : \E k \in DOMAIN p.accepted : lowercase(s) = lowercase(p.accepted[k])}
  \cup {"Bogus", "bogus", "", "Ruminant", "Annual"}

OptionValues(p) ==
  IF p.kind = "enum" THEN Spellings(p)
  ELSE {<<s>> : s \in Spellings(p)} \cup {<<p.accepted[1], s>> : s \in {"Bogus", ""}}
       \cup {<< >>}

AllGlobalParameters == OutputParameters \o TextTablesParameters \o SimulationParameters

OptionIndices(parameters) == {k \in DOMAIN parameters : parameters[k].kind # "value"}

\* The HFT table in which parameter p is read: with the option of the
\* parent of p and everything that depends on it.
TableFor(p) ==
  IF p.parent = "" THEN BaseHft
  ELSE WithDependents(BaseHft, p.parent, CHOOSE o \in p.selected : TRUE, 1)

\* The files that give one option parameter some string.
OptionInsfiles ==
  UNION {{[BaseInsfile EXCEPT !.global = SetKey(BaseGlobal, AllGlobalParameters[k].key, v)] :
            v \in OptionValues(AllGlobalParameters[k])} :
           k \in OptionIndices(AllGlobalParameters)}
  \cup
  UNION {{WithHft(BaseInsfile, SetKey(TableFor(HftParameters[k]), HftParameters[k].key, v)) :
            v \in OptionValues(HftParameters[k])} :
           k \in OptionIndices(HftParameters)}

\* The files that lack one parameter of the complete file.
MissingInsfiles ==
  {[BaseInsfile EXCEPT !.global = RemoveKey(BaseGlobal, k)] : k \in DOMAIN BaseGlobal}
  \cup {WithHft(BaseInsfile, RemoveKey(BaseHft, k)) : k \in DOMAIN BaseHft}

RenameKey(table, from, to) ==
  IF from \in DOMAIN table THEN SetKey(RemoveKey(table, from), to, table[from])
  ELSE table

\* The keys under which a file may list the mortality factors of an HFT.
MortalityFactorKeys == {"hft.mortality.factors", "mortality.factors"}

\* The files that select an option and have, lack, or inherit from the
\* group one parameter that depends on it.
DependentInsfiles ==
  UNION {UNION {UNION {
    { WithHft(BaseInsfile, RenameKey(WithDependents(BaseHft, HftParameters[k].parent, o, 1), "hft.mortality.factors", m)),
      WithHft(BaseInsfile, RenameKey(RemoveKey(WithDependents(BaseHft, HftParameters[k].parent, o, 1), HftParameters[k].key), "hft.mortality.factors", m)),
      [BaseInsfile EXCEPT
         !.hft = <<RenameKey(RemoveKey(WithDependents(BaseHft, HftParameters[k].parent, o, 1), HftParameters[k].key), "hft.mortality.factors", m)>>,
         !.group = <<SetKey(BaseGroup, HftParameters[k].key, ValidValue(HftParameters[k]))>>] } :
      m \in MortalityFactorKeys} :
      o \in HftParameters[k].selected} :
      k \in {j \in DOMAIN HftParameters : HftParameters[j].parent # ""}}

\* The files for the search through the groups: the HFT names no, one or
\* two groups, of which one may not exist; the file has two groups in
\* either order, with or without a group without a name among them; and
\* the parameter body_mass.male is set in the HFT, in the groups, or not.
GroupArrays ==
  {<< >>, <<"g1">>, <<"g1", "g2">>, <<"g2", "g1">>, <<"gX", "g1">>, <<"g1", "gX">>}

Group2 == "name" :> "g2"

Nameless == "body_mass.male" :> 4

GroupTables(g1, g2) ==
  {<<g1, g2>>, <<g2, g1>>, <<Nameless, g1, g2>>, <<g1, Nameless, g2>>, <<g1>>}

GroupInsfiles ==
  UNION {UNION {
    { [BaseInsfile EXCEPT !.hft = <<h>>, !.group = t] :
        t \in GroupTables(IF in_g1 THEN BaseGroup ELSE RemoveKey(BaseGroup, "body_mass.male"),
                          IF in_g2 THEN SetKey(Group2, "body_mass.male", 3) ELSE Group2) } :
      h \in {SetKey(BaseHft, "groups", a) : a \in GroupArrays}
            \cup {SetKey(SetKey(BaseHft, "groups", a), "body_mass.male", 1) : a \in GroupArrays}
            \cup {RemoveKey(BaseHft, "groups")} } :
      in_g1 \in BOOLEAN, in_g2 \in BOOLEAN}

\* The files with no HFT and with two HFTs, the second of which may have
\* an invalid option or no name.
HftArrayInsfiles ==
  {[BaseInsfile EXCEPT !.hft = a] :
     a \in {<< >>, <<BaseHft, SetKey(BaseHft, "name", "hft2")>>,
            <<BaseHft, SetKey(SetKey(BaseHft, "name", "hft2"), "digestion.type", "Bogus")>>,
            <<BaseHft, RemoveKey(BaseHft, "name")>>}}

Insfiles ==
  {BaseInsfile} \cup OptionInsfiles \cup MissingInsfiles \cup DependentInsfiles
  \cup GroupInsfiles \cup HftArrayInsfiles

NoFind == [op |-> "none", key |-> "", mandatory |-> FALSE, result |-> NotFound]

InitReader ==
  /\ CoreIdle /\ MergeIdle /\ PopulationsIdle /\ OutputIdle /\ LastIdle
  /\ r_ins \in Insfiles
  /\ r_step = "parsed"
  /\ r_params = << >>
  /\ r_hfts = << >>
  /\ r_error = NoInsfileError
  /\ r_found = NoFind

\* The result of a reading function of the global tables: an exception
\* ends the construction, and there is no reader.
ReadGlobal(r, step) ==
  /\ IF r.error.exc # "none"
     THEN r_step' = "failed" /\ r_params' = << >>
     ELSE r_step' = step /\ r_params' = r.target
  /\ r_error' = r.error
  /\ UNCHANGED <<r_ins, r_hfts, r_found>>
  /\ UNCHANGED <<hvars, wvars, dvars, svars, mvars, pvars, ovars, lvars>>

\* read_table_output()
R_read_table_output ==
  /\ r_step = "parsed"
  /\ \E r \in {read_global_parameters(r_ins, OutputParameters, 1, r_params)} :
       ReadGlobal(r, "output")

\* read_table_output_text_tables()
R_read_table_output_text_tables ==
  /\ r_step = "output"
  /\ r_params["output.format"] = "TextTables"
  /\ \E r \in {read_global_parameters(r_ins, TextTablesParameters, 1, r_params)} :
       ReadGlobal(r, "text_tables")

\* read_table_simulation(); without HFT tables the construction is
\* complete.
R_read_table_simulation ==
  /\ r_step = "text_tables"
  /\ \E r \in {read_global_parameters(r_ins, SimulationParameters, 1, r_params)} :
       ReadGlobal(r, IF r_ins.hft = << >> THEN "done" ELSE "simulation")

\* read_hft(hft_table) for the next HFT table and hfts.insert(hft).
R_read_hft ==
  /\ r_step = "simulation"
  /\ \E r \in {read_hft(r_ins, r_ins.hft[Len(r_hfts) + 1])} :
       /\ IF r.error.exc # "none"
          THEN r_step' = "failed" /\ r_params' = << >> /\ r_hfts' = << >>
          ELSE /\ r_hfts' = Append(r_hfts, r.target)
               /\ r_step' = IF Len(r_hfts) + 1 = Len(r_ins.hft) THEN "done"
                            ELSE "simulation"
               /\ UNCHANGED r_params
       /\ r_error' = r.error
  /\ UNCHANGED <<r_ins, r_found>>
  /\ UNCHANGED <<hvars, wvars, dvars, svars, mvars, pvars, ovars, lvars>>

FindKeys == {"body_mass.male", "body_fat.maximum", "life_history.lifespan"}

Found(op, key, mandatory, result) ==
  /\ r_found' = [op |-> op, key |-> key, mandatory |-> mandatory, result |-> result]
  /\ UNCHANGED <<r_ins, r_step, r_params, r_hfts, r_error>>
  /\ UNCHANGED <<hvars, wvars, dvars, svars, mvars, pvars, ovars, lvars>>

\* find_hft_parameter(hft_table, key, mandatory) on the first HFT table
R_find_hft_parameter ==
  /\ r_step = "parsed" /\ r_found = NoFind
  /\ r_ins.hft # << >> /\ "name" \in DOMAIN r_ins.hft[1]
  /\ \E key \in FindKeys, mandatory \in BOOLEAN :
       Found("find_hft_parameter", key, mandatory,
             find_hft_parameter(r_ins, r_ins.hft[1], key, mandatory))

\* find_hft_array_parameter(hft_table, key, mandatory) on the first HFT
\* table
R_find_hft_array_parameter ==
  /\ r_step = "parsed" /\ r_found = NoFind
  /\ r_ins.hft # << >> /\ "name" \in DOMAIN r_ins.hft[1]
  /\ \E key \in FindKeys, mandatory \in BOOLEAN :
       Found("find_hft_array_parameter", key, mandatory,
             find_hft_array_parameter(r_ins, r_ins.hft[1], key, mandatory))

NextReader ==
  \/ R_read_table_output
  \/ R_read_table_output_text_tables
  \/ R_read_table_simulation
  \/ R_read_hft
  \/ R_find_hft_parameter
  \/ R_find_hft_array_parameter

SpecReader == InitReader /\ [][NextReader]_vars

(***************************************************************************)
(* Fauna::PeriodAverage on its own and as the record of the body condition *)
(* of a female herbivore over the days of a run.                           *)
(***************************************************************************)
MaxAdds == 4
MaxGestationDays == 33

Counts == {-1, 0, 1, 2, 3}
AddedValues == {0, 400, 1000}

\* The HFTs of the runs over more than a gestation period: no mortality, and
\* no gestation period at all.
GestationHfts ==
  { [DefaultHft EXCEPT !.mortality_factors = {},
                       !.reproduction_model = "RM_ILLIUS_OCONNOR_2000"],
    [DefaultHft EXCEPT !.mortality_factors = {},
                       !.reproduction_model = "RM_LINEAR"],
    [DefaultHft EXCEPT !.mortality_factors = {}, !.gestation_months = 0] }

InitAverage ==
  /\ WorldIdle /\ DayIdle /\ SimIdle
  /\ MergeIdle /\ PopulationsIdle /\ OutputIdle /\ ReaderIdle /\ SeasonIdle
  /\ WeightedIdle /\ FrameworkIdle /\ CopyIdle
  /\ a_added = << >> /\ a_result = << >>
  /\ \/ /\ HerbIdle
        /\ \E count \in Counts :
             LET r == PeriodAverage_construct(count)
             IN  a_average = r.p /\ a_exc = r.exc
        /\ a_op = "PeriodAverage"
     \/ /\ \E hft \in GestationHfts, bc \in {200, 500, 1000}, age \in {365, 730} :
             LET r == HerbivoreCohort_establish(age, bc, hft, "SEX_FEMALE", 1000)
             IN  /\ herb = r.h /\ h_exc = r.exc /\ a_exc = r.exc
        /\ h_prev = NoHerbivore /\ h_op = "establish" /\ h_arg = << >>
        /\ h_offspring = -1 /\ h_day = << >> /\ h_eaten = << >> /\ h_steps = 0
        /\ a_average = NoPeriodAverage
        /\ a_op = "HerbivoreBase"

A_add_value ==
  /\ a_op \in {"PeriodAverage", "add_value", "get_average"}
  /\ a_exc # "invalid_argument"
  /\ Len(a_added) < MaxAdds
  /\ \E v \in AddedValues :
       /\ a_average' = PeriodAverage_add_value(a_average, v)
       /\ a_added' = Append(a_added, v)
  /\ a_op' = "add_value" /\ a_exc' = "none" /\ a_result' = << >>
  /\ UNCHANGED <<hvars, wvars, dvars, svars, mvars, pvars, ovars, rvars,
               NotAverageVars>>

A_get_average ==
  /\ a_op \in {"PeriodAverage", "add_value"}
  /\ a_exc # "invalid_argument"
  /\ LET r == PeriodAverage_get_average_checked(a_average)
     IN  a_exc' = r.exc /\ a_result' = r.average
  /\ a_op' = "get_average"
  /\ UNCHANGED <<a_average, a_added>>
  /\ UNCHANGED <<hvars, wvars, dvars, svars, mvars, pvars, ovars, rvars,
               NotAverageVars>>

\* The body condition that simulate_day() records on a day.
RecordedBodyCondition(h) ==
  LET h1 == [h EXCEPT !.age_days = @ + 1]
  IN  (get_fatmass(h1) * Scale) \div get_max_fatmass(h1)

\* One more day of the herbivore: simulate_day(day) for the days 0, 1, ... .
A_simulate_day ==
  /\ a_op \in {"HerbivoreBase", "simulate_day"}
  /\ a_exc = "none"
  /\ h_steps < MaxGestationDays
  /\ LET r == HerbivoreBase_simulate_day(herb, h_steps % DaysPerYear, "env", -1)
     IN  /\ herb' = r.h /\ h_prev' = herb /\ h_op' = "simulate_day"
         /\ h_exc' = r.exc /\ a_exc' = r.exc
         /\ h_arg' = r.mortality_sum /\ h_offspring' = r.offspring
         /\ h_day' = <<h_steps % DaysPerYear>> /\ h_eaten' = << >>
         /\ h_steps' = h_steps + 1
         /\ a_added' = IF r.exc = "none"
                       THEN Append(a_added, RecordedBodyCondition(herb))
                       ELSE a_added
  /\ a_op' = "simulate_day"
  /\ UNCHANGED <<a_average, a_result>>
  /\ UNCHANGED <<wvars, dvars, svars, mvars, pvars, ovars, rvars,
               NotAverageVars>>

NextAverage == A_add_value \/ A_get_average \/ A_simulate_day

SpecAverage == InitAverage /\ [][NextAverage]_vars


(***************************************************************************)
(* ReprIlliusOconnor2000 over the days of a year at optimal body           *)
(* condition.  The annual maximum and the daily densities of these runs    *)
(* are in millionths, so that the division by the length of the season     *)
(* loses less than the tolerance of the comparison.                        *)
(***************************************************************************)
SeasonStarts == {0, 100, 300, 364}
SeasonLengths == {1, 90, 365}
AnnualMaxima == {1000000, 1500000}
OPT == Scale

SeasonHft ==
  [DefaultHft EXCEPT !.breeding_season_start = q_season.start,
                     !.breeding_season_length = q_season.length,
                     !.reproduction_max = q_max]

InitSeason ==
  /\ CoreIdle /\ MergeIdle /\ PopulationsIdle /\ OutputIdle /\ ReaderIdle
  /\ AverageIdle /\ WeightedIdle /\ FrameworkIdle /\ CopyIdle
  /\ q_season \in [start : SeasonStarts, length : SeasonLengths]
  /\ q_max \in AnnualMaxima
  /\ q_day = 0 /\ q_sum_year = 0 /\ q_sum_season = 0

\* The next day of the year is added to the sum over the year, and the next
\* day of the season, counted from its start, to the sum over the season.
Q_get_offspring_density ==
  /\ q_season # << >>
  /\ q_day < DaysPerYear
  /\ q_sum_year' = q_sum_year
       + ReprIlliusOconnor2000_get_offspring_density(SeasonHft, q_day, OPT)
  /\ q_sum_season' = q_sum_season
       + (IF q_day < q_season.length
          THEN ReprIlliusOconnor2000_get_offspring_density(SeasonHft,
                 (q_season.start + q_day) % DaysPerYear, OPT)
          ELSE 0)
  /\ q_day' = q_day + 1
  /\ UNCHANGED <<q_season, q_max>>
  /\ UNCHANGED <<hvars, wvars, dvars, svars, mvars, pvars, ovars, rvars,
                 NotSeasonVars>>

NextSeason == Q_get_offspring_density

SpecSeason == InitSeason /\ [][NextSeason]_vars


(***************************************************************************)
(* Fauna::average().  The values are rational numbers [n, d] in lowest     *)
(* terms, so that the quotient is exact; a weight is a finite number or    *)
(* one of the non-finite doubles.                                          *)
(***************************************************************************)
RECURSIVE GCD(_, _)
GCD(a, b) == IF b = 0 THEN a ELSE GCD(b, a % b)

Abs(x) == IF x < 0 THEN -x ELSE x

Rational(n, d) ==
  LET g == GCD(Abs(n), d)
  IN  [n |-> n \div g, d |-> d \div g]

Finite(v) == [kind |-> "finite", v |-> v]
NAN == [kind |-> "nan", v |-> 0]
INFINITY == [kind |-> "infinity", v |-> 0]
MinusInfinity == [kind |-> "-infinity", v |-> 0]

\* weight < 0.0
IsNegative(w) ==
  \/ w.kind = "-infinity"
  \/ (w.kind = "finite" /\ w.v < 0)

\* The mean of a and b without their weights.
average_unweighted(a, b, weight_a, weight_b) ==
  IF IsNegative(weight_a) \/ IsNegative(weight_b)
  THEN [exc |-> "invalid_argument", value |-> << >>]
  ELSE IF weight_a.kind = "nan" \/ weight_b.kind = "nan"
  THEN [exc |-> "invalid_argument", value |-> << >>]
  ELSE IF weight_a.kind = "infinity" \/ weight_b.kind = "infinity"
  THEN [exc |-> "invalid_argument", value |-> << >>]
  ELSE IF weight_a.v + weight_b.v = 0
  THEN [exc |-> "invalid_argument", value |-> << >>]
  ELSE [exc |-> "none",
        value |-> <<Rational(a.n * b.d + b.n * a.d, a.d * b.d * 2)>>]

average(a, b, weight_a, weight_b) ==
  IF IsNegative(weight_a) \/ IsNegative(weight_b)
  THEN [exc |-> "invalid_argument", value |-> << >>]
  ELSE IF weight_a.kind = "nan" \/ weight_b.kind = "nan"
  THEN [exc |-> "invalid_argument", value |-> << >>]
  ELSE IF weight_a.kind = "infinity" \/ weight_b.kind = "infinity"
  THEN [exc |-> "invalid_argument", value |-> << >>]
  ELSE IF weight_a.v + weight_b.v = 0
  THEN [exc |-> "invalid_argument", value |-> << >>]
  ELSE [exc |-> "none",
        value |-> <<Rational(a.n * weight_a.v * b.d + b.n * weight_b.v * a.d,
                             a.d * b.d * (weight_a.v + weight_b.v))>>]

\* The merge of two datapoints [value, weight]: the weighted average of the
\* values and the sum of the weights.
Datapoint_merge(x, y) ==
  LET r == average(x.value, y.value, x.weight, y.weight)
  IN  IF r.exc # "none"
      THEN [exc |-> r.exc, value |-> x.value, weight |-> x.weight]
      ELSE [exc |-> "none", value |-> r.value[1],
            weight |-> Finite(x.weight.v + y.weight.v)]

\* merge(merge(a, b), c) and merge(a, merge(b, c)); an exception of the
\* inner merge ends the outer one.
Datapoint_merge_left(a, b, c) ==
  LET ab == Datapoint_merge(a, b)
  IN  IF ab.exc # "none" THEN ab
      ELSE Datapoint_merge([value |-> ab.value, weight |-> ab.weight], c)

Datapoint_merge_right(a, b, c) ==
  LET bc == Datapoint_merge(b, c)
  IN  IF bc.exc # "none" THEN [bc EXCEPT !.value = a.value, !.weight = a.weight]
      ELSE Datapoint_merge(a, [value |-> bc.value, weight |-> bc.weight])

DatapointValues == {Rational(-2, 1), Rational(0, 1), Rational(3, 1)}
Weights == {Finite(-1), Finite(0), Finite(1), Finite(2), NAN, INFINITY,
            MinusInfinity}
Datapoints == [value : DatapointValues, weight : Weights]

InitWeighted ==
  /\ CoreIdle /\ MergeIdle /\ PopulationsIdle /\ OutputIdle /\ ReaderIdle
  /\ AverageIdle /\ SeasonIdle /\ FrameworkIdle /\ CopyIdle
  /\ g_a \in Datapoints /\ g_b \in Datapoints /\ g_c \in Datapoints
  /\ g_average = << >> /\ g_left = << >> /\ g_right = << >>

\* average(a, b, w_a, w_b) and average(b, a, w_b, w_a)
G_average ==
  /\ g_a # << >> /\ g_average = << >>
  /\ g_average' = <<average(g_a.value, g_b.value, g_a.weight, g_b.weight),
                    average(g_b.value, g_a.value, g_b.weight, g_a.weight)>>
  /\ UNCHANGED <<g_a, g_b, g_c, g_left, g_right>>
  /\ UNCHANGED <<hvars, wvars, dvars, svars, mvars, pvars, ovars, rvars,
                 NotWeightedVars>>

G_merge_left ==
  /\ g_a # << >> /\ g_left = << >>
  /\ g_left' = <<Datapoint_merge_left(g_a, g_b, g_c)>>
  /\ UNCHANGED <<g_a, g_b, g_c, g_average, g_right>>
  /\ UNCHANGED <<hvars, wvars, dvars, svars, mvars, pvars, ovars, rvars,
                 NotWeightedVars>>

G_merge_right ==
  /\ g_a # << >> /\ g_right = << >>
  /\ g_right' = <<Datapoint_merge_right(g_a, g_b, g_c)>>
  /\ UNCHANGED <<g_a, g_b, g_c, g_average, g_left>>
  /\ UNCHANGED <<hvars, wvars, dvars, svars, mvars, pvars, ovars, rvars,
                 NotWeightedVars>>

NextWeighted == G_average \/ G_merge_left \/ G_merge_right

SpecWeighted == InitWeighted /\ [][NextWeighted]_vars


(***************************************************************************)
(* Framework::run of the demo simulator: the instruction file, the loop    *)
(* over the years and days, and the progress report at the end of a year.  *)
(***************************************************************************)
MaxYears == 11

Years == (-1)..MaxYears

InitFramework ==
  /\ CoreIdle /\ MergeIdle /\ PopulationsIdle /\ OutputIdle /\ ReaderIdle
  /\ AverageIdle /\ SeasonIdle /\ WeightedIdle /\ CopyIdle
  /\ f_nyears \in Years
  /\ f_pc = "read_instruction_file"
  /\ f_year = 0 /\ f_day_of_year = 0 /\ f_calls = 0 /\ f_last_date = << >>
  /\ f_by_zero = FALSE /\ f_progress = << >>

FrameworkUnchanged ==
  UNCHANGED <<hvars, wvars, dvars, svars, mvars, pvars, ovars, rvars,
              NotFrameworkVars>>

\* read_instruction_file: general.years below 1 is a runtime_error, which
\* run() answers with `return false`.
F_read_instruction_file ==
  /\ f_pc = "read_instruction_file"
  /\ f_pc' = IF f_nyears < 1 THEN "returned_false" ELSE "days"
  /\ UNCHANGED <<f_nyears, f_year, f_day_of_year, f_calls, f_last_date,
                 f_by_zero, f_progress>>
  /\ FrameworkUnchanged

\* One pass of the loop over the days: fauna_world->simulate_day(date, true),
\* which returns or throws.
F_simulate_day ==
  /\ f_pc = "days"
  /\ f_year < f_nyears /\ f_day_of_year < 365
  /\ f_calls' = f_calls + 1
  /\ f_last_date' = [day |-> f_day_of_year, year |-> f_year]
  /\ \E thrown \in BOOLEAN :
       IF thrown
       THEN f_pc' = "returned_false" /\ f_day_of_year' = f_day_of_year
       ELSE /\ f_day_of_year' = f_day_of_year + 1
            /\ f_pc' = IF f_day_of_year + 1 < 365 THEN "days" ELSE "progress"
  /\ UNCHANGED <<f_nyears, f_year, f_by_zero, f_progress>>
  /\ FrameworkUnchanged

\* The end of the pass over a year.
NextYear ==
  /\ f_year' = f_year + 1
  /\ f_day_of_year' = 0
  /\ f_pc' = IF f_year + 1 < f_nyears THEN "days" ELSE "returned_true"

\* PRINT PROGRESS.  A remainder or quotient by zero is undefined: the
\* process is stopped by the trap, or goes on with any value.
F_print_progress ==
  /\ f_pc = "progress"
  /\ LET progress_interval == CppDiv(f_nyears, 10)
     IN  IF progress_interval = 0
         THEN /\ f_by_zero' = TRUE
              /\ \/ f_pc' = "crashed"
                      /\ UNCHANGED <<f_year, f_day_of_year, f_progress>>
                 \/ NextYear /\ UNCHANGED f_progress
                 \/ /\ f_nyears - 1 # 0
                    /\ NextYear
                    /\ f_progress' = Append(f_progress,
                                       CppDiv(100 * f_year, f_nyears - 1))
                 \/ /\ f_nyears - 1 = 0
                    /\ \/ f_pc' = "crashed"
                            /\ UNCHANGED <<f_year, f_day_of_year, f_progress>>
                       \/ NextYear /\ f_progress' = Append(f_progress, 0)
         ELSE IF CppMod(f_year, progress_interval) = 0
                   \/ f_year = f_nyears - 1
         THEN /\ NextYear
              /\ f_by_zero' = (f_by_zero \/ f_nyears - 1 = 0)
              /\ f_progress' = Append(f_progress,
                                 IF f_nyears - 1 = 0 THEN 0
                                 ELSE CppDiv(100 * f_year, f_nyears - 1))
         ELSE NextYear /\ UNCHANGED <<f_by_zero, f_progress>>
  /\ UNCHANGED <<f_nyears, f_calls, f_last_date>>
  /\ FrameworkUnchanged

NextFramework ==
  F_read_instruction_file \/ F_simulate_day \/ F_print_progress

SpecFramework == InitFramework /\ [][NextFramework]_vars


(***************************************************************************)
(* The copy constructor and the copy assignment of HerbivoreBase and       *)
(* HerbivoreCohort, and the days of the original and of its copy after it. *)
(***************************************************************************)
\* HerbivoreBase(const HerbivoreBase& other): the members of the
\* initializer list; `today` is not among them and holds whatever today0
\* stands for, `environment` is an empty pointer, the record of the body
\* condition and the helper for the forage demands are new objects.
HerbivoreBase_copy(other, today0) ==
  [ hft |-> other.hft, sex |-> other.sex, age_days |-> other.age_days,
    today |-> today0,
    ind_per_km2 |-> 0,
    energy_budget |-> other.energy_budget,
    nitrogen |-> other.nitrogen,
    body_condition_gestation |-> PeriodAverage(other.hft.gestation_months * 30),
    environment |-> << >>,
    current_output |-> other.current_output,
    forage_demands |-> GetForageDemands ]

HerbivoreCohort_copy(other, today0) ==
  [HerbivoreBase_copy(other, today0) EXCEPT !.ind_per_km2 = other.ind_per_km2]

\* HerbivoreBase::operator=: `today` and `environment` are not assigned.
HerbivoreBase_assign(this, other) ==
  [this EXCEPT !.hft = other.hft,
               !.age_days = other.age_days,
               !.body_condition_gestation = other.body_condition_gestation,
               !.nitrogen = other.nitrogen,
               !.sex = other.sex,
               !.energy_budget = other.energy_budget,
               !.forage_demands = other.forage_demands,
               !.current_output = other.current_output]

HerbivoreCohort_assign(this, other) ==
  [HerbivoreBase_assign(this, other) EXCEPT !.ind_per_km2 = other.ind_per_km2]

MaxHistoryDays == 4
MaxCopyDays == 2
\* The runs with copies begin with the breeding season.
FirstCopyDay == DefaultHft.breeding_season_start

\* The HFTs of the runs with copies: no mortality but the background one,
\* every reproduction model.
CopyHfts ==
  {[DefaultHft EXCEPT !.mortality_factors = {"MF_BACKGROUND"},
                      !.reproduction_model = rm] : rm \in ReproductionModels}

InitCopy ==
  /\ WorldIdle /\ DayIdle /\ SimIdle
  /\ MergeIdle /\ PopulationsIdle /\ OutputIdle /\ ReaderIdle
  /\ AverageIdle /\ SeasonIdle /\ WeightedIdle /\ FrameworkIdle
  /\ \E hft \in CopyHfts, sex \in Sexes, bc \in {500, 1000} :
       LET r == HerbivoreCohort_establish(730, bc, hft, sex, 1000)
       IN  herb = r.h /\ h_exc = r.exc
  /\ h_prev = NoHerbivore /\ h_op = "establish" /\ h_arg = << >>
  /\ h_offspring = -1 /\ h_day = << >> /\ h_eaten = << >> /\ h_steps = 0
  /\ c_copy = NoHerbivore /\ c_op = "original" /\ c_exc = "none"
  /\ c_offspring = -1 /\ c_mortality = << >>

CopyUnchanged ==
  UNCHANGED <<wvars, dvars, svars, mvars, pvars, ovars, rvars, NotCopyVars>>

\* A day of the original before it is copied.
C_simulate_day ==
  /\ c_op = "original" /\ h_exc = "none"
  /\ h_steps < MaxHistoryDays
  /\ LET r == HerbivoreBase_simulate_day(herb, FirstCopyDay + h_steps, "env", -1)
     IN  /\ herb' = r.h /\ h_prev' = herb /\ h_op' = "simulate_day"
         /\ h_exc' = r.exc /\ h_arg' = r.mortality_sum
         /\ h_offspring' = r.offspring
         /\ h_day' = <<FirstCopyDay + h_steps>> /\ h_eaten' = << >>
         /\ h_steps' = h_steps + 1
  /\ UNCHANGED cvars
  /\ CopyUnchanged

\* HerbivoreCohort copy(original);
C_copy ==
  /\ c_op = "original" /\ h_exc = "none"
  /\ \E today0 \in UninitializedToday \cup {herb.today} :
       c_copy' = HerbivoreCohort_copy(herb, today0)
  /\ c_op' = "copy"
  /\ UNCHANGED <<c_exc, c_offspring, c_mortality>>
  /\ UNCHANGED hvars
  /\ CopyUnchanged

\* target = original; for a target established before as another cohort.
C_assign ==
  /\ c_op = "original" /\ h_exc = "none"
  /\ \E r \in {HerbivoreCohort_establish(365, 500, DefaultHft, "SEX_MALE", 5)} :
       /\ r.exc = "none"
       /\ c_copy' = HerbivoreCohort_assign(r.h, herb)
  /\ c_op' = "assign"
  /\ UNCHANGED <<c_exc, c_offspring, c_mortality>>
  /\ UNCHANGED hvars
  /\ CopyUnchanged

\* The same simulate_day() on the original and on the copy.
C_simulate_both ==
  /\ c_op \in {"copy", "assign", "both"}
  /\ h_exc = "none" /\ c_exc = "none"
  /\ h_steps < MaxHistoryDays + MaxCopyDays
  /\ LET day == FirstCopyDay + h_steps
         r == HerbivoreBase_simulate_day(herb, day, "env", -1)
         c == HerbivoreBase_simulate_day(c_copy, day, "env", -1)
     IN  /\ herb' = r.h /\ h_prev' = herb /\ h_op' = "simulate_day"
         /\ h_exc' = r.exc /\ h_arg' = r.mortality_sum
         /\ h_offspring' = r.offspring
         /\ h_day' = <<day>> /\ h_eaten' = << >>
         /\ h_steps' = h_steps + 1
         /\ c_copy' = c.h /\ c_exc' = c.exc
         /\ c_offspring' = c.offspring /\ c_mortality' = c.mortality_sum
  /\ c_op' = "both"
  /\ CopyUnchanged

NextCopy == C_simulate_day \/ C_copy \/ C_assign \/ C_simulate_both

SpecCopy == InitCopy /\ [][NextCopy]_vars


(***************************************************************************)
(* Properties of the herbivore operations.                                 *)
(***************************************************************************)
HerbExists == h_op # "idle" /\ ~(h_op \in {"establish", "birth"} /\ h_exc # "none")

LifespanDays(h) == h.hft.lifespan * DaysPerYear

\* C6: after either constructor and after every simulate_day or eat that
\* returns normally, 0 <= fatmass <= max_fatmass, max_fatmass is
\* bodyfat_max * potential body mass at the current age, and energy_needs >= 0.
C6_FatmassWithinBounds ==
  (HerbExists /\ h_exc = "none"
     /\ h_op \in {"establish", "birth", "simulate_day", "eat"})
    => /\ 0 <= herb.energy_budget.fatmass
       /\ herb.energy_budget.fatmass <= herb.energy_budget.max_fatmass
       /\ herb.energy_budget.max_fatmass
            = (potential_bodymass(herb.hft, herb.sex, herb.age_days)
                 * herb.hft.bodyfat_max) \div Scale
       /\ herb.energy_budget.energy_needs >= 0

\* A simulate_day in which the starvation model forced a higher body
\* condition: fat mass rose although nothing was eaten.
C6_Witness ==
  /\ h_op = "simulate_day" /\ h_exc = "none"
  /\ "MF_STARVATION_ILLIUS_OCONNOR_2000" \in herb.hft.mortality_factors
  /\ herb.energy_budget.fatmass > h_prev.energy_budget.fatmass
  /\ herb.energy_budget.fatmass < herb.energy_budget.max_fatmass

\* C7: the value apply_mortality_factors_today hands to apply_mortality lies
\* in [0, 1], for every subset of the mortality factors.
C7_MortalitySumInUnitInterval ==
  (h_op = "simulate_day" /\ h_arg # << >>)
    => (0 <= h_arg[1] /\ h_arg[1] <= Scale)

\* Two selected factors each report mortality 1; the value passed on is 1.
C7_Witness ==
  /\ h_op = "simulate_day" /\ h_exc = "none" /\ h_arg = <<Scale>>
  /\ SumOver(herb.current_output.mortality, DOMAIN herb.current_output.mortality)
       > Scale

\* C8: get_todays_offspring_proportion is 0 for males and for females
\* younger than maturity_age_sex under every reproduction model; the
\* offspring written by simulate_day is >= 0 and positive only for
\* sexually mature females.
C8_OffspringOnlyFromMatureFemales ==
  /\ (HerbExists /\ (herb.sex = "SEX_MALE"
                       \/ ~age_years_at_least(herb, herb.hft.maturity_age_sex)))
       => get_todays_offspring_proportion(herb) = 0
  /\ (h_op = "simulate_day" /\ h_exc = "none")
       => /\ h_offspring >= 0
          /\ h_offspring > 0
               => /\ herb.sex = "SEX_FEMALE"
                  /\ age_years_at_least(herb, herb.hft.maturity_age_sex)

\* An immature female on a day of the breeding season, with a reproduction
\* model selected: no offspring.
C8_Witness ==
  /\ h_op = "simulate_day" /\ h_exc = "none"
  /\ herb.sex = "SEX_FEMALE"
  /\ ~age_years_at_least(herb, herb.hft.maturity_age_sex)
  /\ herb.hft.reproduction_model # "RM_NONE"
  /\ BreedingSeason_is_in_season(herb.hft.breeding_season_start,
                                 herb.hft.breeding_season_length, herb.today)
  /\ h_offspring = 0

\* C9: with MF_LIFESPAN selected a cohort that is not dead has
\* age_days <= lifespan * 365, and a simulate_day that brings the age to
\* lifespan * 365 or beyond hands mortality 1 to apply_mortality.
C9_AgeWithinLifespan ==
  (HerbExists /\ "MF_LIFESPAN" \in herb.hft.mortality_factors)
    => /\ ~is_dead(herb) => herb.age_days <= LifespanDays(herb)
       /\ (h_op = "simulate_day" /\ h_exc = "none"
             /\ herb.age_days >= LifespanDays(herb))
            => (h_arg = <<Scale>> /\ is_dead(herb))

\* A cohort reaches its lifespan in simulate_day and is dead afterwards.
C9_Witness ==
  /\ h_op = "simulate_day" /\ h_exc = "none"
  /\ "MF_LIFESPAN" \in herb.hft.mortality_factors
  /\ ~is_dead(h_prev)
  /\ h_prev.age_days < LifespanDays(herb)
  /\ herb.age_days = LifespanDays(herb)
  /\ h_arg = <<Scale>> /\ herb.ind_per_km2 = 0

\* C10: the density is never negative; apply_mortality(m) with 0 <= m <= 1
\* leaves a density >= 0 and not larger than before (0 for m = 1, unchanged
\* for m = 0); with m outside [0, 1] it throws invalid_argument and leaves
\* the density unchanged.
C10_DensityNeverNegative ==
  HerbExists
    => /\ herb.ind_per_km2 >= 0
       /\ h_op = "apply_mortality"
            => IF 0 <= h_arg[1] /\ h_arg[1] <= Scale
               THEN /\ h_exc = "none"
                    /\ herb.ind_per_km2 <= h_prev.ind_per_km2
                    /\ h_arg[1] = Scale => herb.ind_per_km2 = 0
                    /\ h_arg[1] = 0 => herb.ind_per_km2 = h_prev.ind_per_km2
               ELSE /\ h_exc = "invalid_argument"
                    /\ herb.ind_per_km2 = h_prev.ind_per_km2

\* A partial mortality thins the cohort.
C10_Witness ==
  /\ h_op = "apply_mortality" /\ h_exc = "none" /\ h_arg = <<400>>
  /\ 0 < herb.ind_per_km2 /\ herb.ind_per_km2 < h_prev.ind_per_km2

(***************************************************************************)
(* Properties of the establishment cadence.                                *)
(***************************************************************************)
Units == 1..Len(sim_units)

\* The day of the last call of World::simulate_day that returned.
Yesterday == w_day - 1

CadenceDue(u) ==
  /\ herbivore_establish_interval > 0
  /\ u.counter_seen = herbivore_establish_interval

C3_FlagIffIntervalPassedForEveryUnit ==
  \A i \in Units :
    LET u == sim_units[i]
    IN  w_day > 0 =>
          (u.establish_if_needed
             <=> \/ u.days_since_event = -1
                 \/ /\ herbivore_establish_interval > 0
                    /\ u.days_since_event >= herbivore_establish_interval)


(***************************************************************************)
(* Properties of the daily tick.                                           *)
(***************************************************************************)
TickLog == d_last.log

Allocated(k, ft) ==
  IF k \in DOMAIN s_dist.forage_distribution
  THEN s_dist.forage_distribution[k][ft] ELSE 0

\* C4 (as stated): for each forage type, with D the sum of the demands and
\* A the available mass, the distribution gives every herbivore its full
\* demand if D <= A and its demand scaled by A / D otherwise, and the sum
\* handed to remove_eaten_forage is min(A, D).
C4_ProportionalDistribution ==
  s_dist.called =>
    \A ft \in FORAGE_TYPES :
      LET hs == Herbivores(s_populations)
          demand(k) == s_populations[k[1]].list[k[2]].demand[ft]
          D == SumOver([k \in hs |-> demand(k)], hs)
          A == s_dist.available[ft]
      IN  /\ \A k \in hs :
                Allocated(k, ft) = IF D <= A THEN demand(k)
                                   ELSE (demand(k) * A) \div D
          /\ s_dist.forage_sum[ft] = Min(A, D)

Mergeable(a, b) == a.age_days = b.age_days /\ a.sex = b.sex /\ a.hft = b.hft

\* C11: merge() on two cohorts of the same HFT, sex and age adds the other's
\* density to this cohort and sets the other's to zero, so that the summed
\* density is unchanged, and two cohorts of identical body condition keep it
\* (the call ends normally unless both densities are zero); if age, sex or
\* HFT differ, merge() fails with invalid_argument and changes neither cohort.
C11_MergeAddsDensityOrRejects ==
  m_merges > 0 =>
    LET a == m_before[1]
        b == m_before[2]
    IN  IF Mergeable(a, b)
        THEN /\ m_this.ind_per_km2 = a.ind_per_km2 + b.ind_per_km2
             /\ m_other.ind_per_km2 = 0
             /\ m_this.ind_per_km2 + m_other.ind_per_km2
                  = a.ind_per_km2 + b.ind_per_km2
             /\ get_fatmass(a) = get_fatmass(b)
                  => /\ get_fatmass(m_this) = get_fatmass(a)
                     /\ get_bodyfat(m_this) = get_bodyfat(a)
                     /\ m_this.energy_budget.max_fatmass = a.energy_budget.max_fatmass
             /\ m_exc = "none" \/ a.ind_per_km2 + b.ind_per_km2 = 0
             /\ [m_other EXCEPT !.ind_per_km2 = b.ind_per_km2] = b
        ELSE m_exc = "invalid_argument" /\ m_this = a /\ m_other = b

\* Densities 1 and 3 became 4 and 0, the body condition being the same.
C11_Witness ==
  /\ m_merges > 0 /\ m_exc = "none"
  /\ Mergeable(m_before[1], m_before[2])
  /\ m_before[1].ind_per_km2 = 1000 /\ m_before[2].ind_per_km2 = 3000
  /\ get_fatmass(m_before[1]) = get_fatmass(m_before[2])
  /\ m_this.ind_per_km2 = 4000 /\ m_other.ind_per_km2 = 0

(***************************************************************************)
(* Properties of the argument checks of simulate_day.                      *)
(***************************************************************************)
DayOutOfRange(day) == day < 0 \/ day >= DaysPerYear

\* The herbivore's part: the last simulate_day was given a day out of range
\* or a dead herbivore, so it threw invalid_argument and the herbivore (age,
\* today, environment, energy budget, nitrogen, output) and the offspring
\* out-parameter are what they were.
HerbivoreRejectsDay ==
  (h_op = "simulate_day" /\ (DayOutOfRange(h_day[1]) \/ is_dead(h_prev)))
    => /\ h_exc = "invalid_argument"
       /\ herb = h_prev
       /\ h_offspring = -1

\* The world's part: a call with a day_of_year out of range throws
\* invalid_argument and leaves the simulation units and the establishment
\* counter alone.
WorldRejectsDay ==
  DayOutOfRange(w_day_of_year') =>
    /\ w_exc' = "invalid_argument"
    /\ sim_units' = sim_units
    /\ days_since_last_establishment' = days_since_last_establishment

\* C12: HerbivoreBase::simulate_day with day < 0 or day >= 365, or on a dead
\* herbivore, fails with invalid_argument before it has changed anything;
\* World::simulate_day rejects a day_of_year out of range before it touches
\* a simulation unit or the establishment counter.
C12_SimulateDayRejectsBeforeChanging ==
  []HerbivoreRejectsDay /\ [][WorldRejectsDay]_vars

\* A herbivore that had been simulated before and has died out was given a
\* valid day and rejected.
C12_Witness ==
  /\ h_op = "simulate_day" /\ h_exc = "invalid_argument"
  /\ is_dead(h_prev) /\ ~DayOutOfRange(h_day[1])
  /\ h_prev.today # -1 /\ h_steps > 1

\* A world that has simulated days was given a day_of_year out of range.
WorldRejectedDay ==
  /\ w_exc = "invalid_argument" /\ DayOutOfRange(w_day_of_year)
  /\ w_day > 0 /\ sim_units # << >>

(***************************************************************************)
(* Properties of eat().                                                    *)
(***************************************************************************)
\* C13: eat() on a herbivore of density zero always fails with logic_error,
\* whatever the forage mass, and so never gets to the division by the
\* density.
C13_EatRejectsZeroDensity ==
  (h_op = "eat" /\ get_ind_per_km2(h_prev) = 0) => h_exc = "logic_error"

\* The per-individual amount of a per-area amount.
PerInd(h, per_km2) ==
  [ft \in FORAGE_TYPES |-> (per_km2[ft] * Scale) \div get_ind_per_km2(h)]

\* The forage passed exceeds what is left of today's demand of the herbivore
\* (any forage at all exceeds the demand of a herbivore without individuals).
ExceedsDemand(h, kg_per_km2) ==
  IF get_ind_per_km2(h) = 0 THEN kg_per_km2 # ForageValue(0)
  ELSE add_eaten_fails(h.forage_demands, PerInd(h, kg_per_km2))

\* C14: when the forage passed to eat() exceeds what remains of today's
\* demand, eat() fails with logic_error and the fat mass, the energy needs,
\* the nitrogen state and today's output counters are unchanged; when eat()
\* returns normally, the energy budget, the output counters and the nitrogen
\* tracker have each been updated exactly once with the amounts per
\* individual.
C14_EatAllOrNothing ==
  h_op = "eat" =>
    /\ ExceedsDemand(h_prev, h_eaten[1]) =>
          /\ h_exc = "logic_error"
          /\ herb.energy_budget = h_prev.energy_budget
          /\ herb.nitrogen = h_prev.nitrogen
          /\ herb.current_output = h_prev.current_output
    /\ h_exc = "none" =>
          LET kg_per_ind   == PerInd(h_prev, h_eaten[1])
              N_kg_per_ind == PerInd(h_prev, h_eaten[3])
              nec          == get_net_energy_content(h_prev, h_eaten[2])
              mj_per_ind   == [ft \in FORAGE_TYPES |->
                                 (nec[ft] * kg_per_ind[ft]) \div Scale]
          IN  /\ herb.energy_budget =
                   metabolize_energy(h_prev.energy_budget, ForageSum(mj_per_ind))
              /\ herb.current_output =
                   [h_prev.current_output EXCEPT
                      !.eaten_forage_per_ind =
                         [ft \in FORAGE_TYPES |-> @[ft] + kg_per_ind[ft]],
                      !.energy_intake_per_ind =
                         [ft \in FORAGE_TYPES |-> @[ft] + mj_per_ind[ft]],
                      !.eaten_nitrogen_per_ind = @ + ForageSum(N_kg_per_ind)]
              /\ herb.nitrogen =
                   Nitrogen_ingest(h_prev.nitrogen,
                     (ForageSum(N_kg_per_ind) * get_ind_per_km2(h_prev)) \div Scale)

(***************************************************************************)
(* Properties of the nitrogen cycle.                                       *)
(***************************************************************************)
\* The last tick has returned the nitrogen.
Returned ==
  \E i \in 1..Len(d_last.log) : d_last.log[i].op = "add_excreted_nitrogen"

\* After a tick that returned the nitrogen, a second take_nitrogen_excreta
\* on any cohort hands out nothing.
SecondTakeIsEmpty ==
  Returned =>
    \A i \in 1..Len(d_unit.population) :
      HerbivoreBase_take_nitrogen_excreta(d_unit.population[i]).excreta = 0

\* C15: over any sequence of simulated days nitrogen is conserved: all the
\* nitrogen ingested through eat() is either still held by the herbivores of
\* the population or has been passed to add_excreted_nitrogen; what
\* take_nitrogen_excreta hands out it hands out once.
C15_NitrogenConserved ==
  /\ d_ingested = NitrogenHeld(d_unit.population) + d_returned
  /\ SecondTakeIsEmpty

(***************************************************************************)
(* Properties of the creation of populations.                              *)
(***************************************************************************)
\* C16: creating the populations of a habitat yields exactly one population
\* per HFT and reads the list of HFTs only at the indices 0..size-1, so that
\* the map has as many entries as the list, in World::create_simulation_unit
\* and in Simulator::create_populations alike, for every size of the list,
\* 0 included.
C16_OnePopulationPerHft ==
  (p_op # "none" /\ p_herbivore_type \in {"HT_COHORT", "HT_INDIVIDUAL"}) =>
    /\ p_outcome = "returned"
    /\ p_reads = [i \in 1..Len(p_hftlist) |-> i - 1]
    /\ p_map = p_hftlist

(***************************************************************************)
(* Properties of the output module.                                        *)
(***************************************************************************)
FirstDaysOfMonths == {0, 31, 59, 90, 120, 151, 181, 212, 243, 273, 304, 334}

IntervalBoundary(interval, day, simulation_year) ==
  CASE interval = "DAILY"   -> TRUE
    [] interval = "MONTHLY" -> day \in FirstDaysOfMonths
    [] interval = "ANNUAL"  -> day = 0
    [] interval = "DECADAL" -> day = 0 /\ simulation_year % 10 = 0

RECURSIVE TotalDatapoints(_)
TotalDatapoints(units) ==
  IF units = << >> THEN 0
  ELSE Head(units).datapoint_count + TotalDatapoints(Tail(units))

\* outdaily has returned normally: the overload with the date and the
\* units, or the overload with the gridcell on an active output module.
OutdailyReturned ==
  /\ o_phase = "written"
  /\ o_last.exc = "none"
  /\ \/ o_last.op = "outdaily"
     \/ o_last.op = "outdaily(Gridcell)" /\ o_isactive

\* C17: a call of outdaily that returns writes exactly one row, merged from
\* the output of every simulation unit, and resets the output of every
\* unit if the day is a boundary of the interval (every day for DAILY, the
\* first day of a month for MONTHLY, day 0 for ANNUAL, day 0 of a simulation
\* year divisible by 10 for DECADAL) and is no spin-up day; on every other
\* day it writes no row and leaves the output of every unit as it was.
C17_RowsExactlyOnBoundaries ==
  OutdailyReturned =>
    IF IntervalBoundary(o_interval, o_date.day, o_date.year)
       /\ o_date.year >= o_nyear_spinup
    THEN /\ Len(o_last.rows) = 1
         /\ o_last.rows[1].datapoint_count = TotalDatapoints(o_last.before)
         /\ \A i \in DOMAIN o_units : o_units[i] = EmptyCombinedData
    ELSE /\ o_last.rows = << >>
         /\ o_units = o_last.before

\* A monthly row is written on the first of March from the data of more
\* than one day.
C17_Witness ==
  /\ OutdailyReturned
  /\ o_last.op = "outdaily"
  /\ o_interval = "MONTHLY" /\ o_date.day = 59
  /\ Len(o_last.rows) = 1
  /\ o_last.rows[1].datapoint_count > 1

\* No row on a day that is no boundary, and none in the spin-up.
C17_NoRowWitness ==
  /\ OutdailyReturned
  /\ o_interval = "DECADAL" /\ o_date.day = 0 /\ o_date.year = 11
  /\ o_last.rows = << >> /\ TotalDatapoints(o_units) > 365

HalfPeriod(interval) ==
  CASE interval = "DAILY"   -> 0
    [] interval = "MONTHLY" -> 15
    [] interval = "ANNUAL"  -> 182
    [] interval = "DECADAL" -> 1825

\* C18: the date of every row that is written is a valid date, with a day
\* from 0 to 364, and lies half a period (0, 15, 182 or 1825 days) before
\* the date of the call, counting 365 days a year.
C18_RowDateIsValidMidpoint ==
  (o_last.exc = "none" /\ o_last.rows # << >>) =>
    /\ o_last.rows[1].day >= 0 /\ o_last.rows[1].day <= 364
    /\ o_last.rows[1].year * 365 + o_last.rows[1].day
         = o_date.calendar_year * 365 + o_date.day - HalfPeriod(o_interval)

\* The merged datapoint of the last call.
LastDatapoint == merge_outputs(o_last.before, 1, EmptyCombinedData)

HasData(hft) ==
  /\ hft \in DOMAIN LastDatapoint.hft_data
  /\ LastDatapoint.hft_data[hft].massdens > 0

\* The value a row must have in a table under a caption of get_columns.
ExpectedHftValue(t, hft) ==
  IF HasData(hft) THEN HftTableValue(t, LastDatapoint.hft_data[hft])
  ELSE IF t \in {"TBL_INDDENS", "TBL_MASSDENS"} THEN Value(0)
  ELSE NA_VALUE

ExpectedHftForageValue(t, caption) ==
  IF HasData(caption[1])
  THEN HftForageTableValue(t, LastDatapoint.hft_data[caption[1]], caption[2])
  ELSE NA_VALUE

\* A row has been written into the tables init has created.
RowWritten ==
  /\ o_last.exc = "none" /\ o_last.rows # << >>
  /\ o_tables.created

\* C19: in every row every table gets as many values as it has columns, and
\* in the tables of the HFTs the value under every caption is the one of
\* that HFT (and forage type): for an HFT without data or with a mass
\* density of zero it is 0 in inddens and massdens and missing in every
\* other table, once per forage type in the tables per HFT and forage type.
C19_RowMatchesColumns ==
  RowWritten =>
    \A t \in TableNames :
      /\ Len(o_last.rows[1].values[t]) = Len(o_tables.columns[t])
      /\ \A k \in DOMAIN o_tables.columns[t] :
           CASE column_selector(t) = "CS_HFT" ->
                  o_last.rows[1].values[t][k]
                    = ExpectedHftValue(t, o_tables.columns[t][k])
             [] column_selector(t) = "CS_HFT_FORAGE" ->
                  o_last.rows[1].values[t][k]
                    = ExpectedHftForageValue(t, o_tables.columns[t][k])
             [] OTHER -> TRUE

\* A row for three HFTs and two forage types: one HFT has data, one has
\* data with a mass density of zero, one has none.
C19_Witness ==
  /\ RowWritten
  /\ Len(o_forage_types) = 2 /\ Len(o_hftlist.list) = 3
  /\ HasData("hft1")
  /\ "hft0" \in DOMAIN LastDatapoint.hft_data /\ ~HasData("hft0")
  /\ "hft2" \notin DOMAIN LastDatapoint.hft_data
  /\ Len(o_last.rows[1].values["TBL_ENERGY_CONTENT"]) = 6

\* C20: on an output module that has been deactivated init creates no
\* table, and a call of either overload of outdaily writes no row and
\* leaves the output of every simulation unit as it was.
C20_NoEffectAfterDeactivate ==
  ~o_isactive =>
    /\ o_last.op = "init" => ~o_tables.created
    /\ (o_last.op \in {"outdaily", "outdaily(Gridcell)"} /\ o_last.exc = "none")
         => (o_last.rows = << >> /\ o_units = o_last.before)

\* The overload of outdaily with the gridcell and init keep the promise.
DeactivatedGridcellOutputIsSilent ==
  ~o_isactive =>
    /\ o_last.op = "init" => ~o_tables.created
    /\ o_last.op = "outdaily(Gridcell)"
         => (o_last.rows = << >> /\ o_units = o_last.before)

(***************************************************************************)
(* Properties of the reader of the instruction file.                       *)
(***************************************************************************)
AllParameters == AllGlobalParameters \o HftParameters

ParameterOf(key) ==
  AllParameters[CHOOSE k \in DOMAIN AllParameters : AllParameters[k].key = key]

\* The reader takes the string for an option of the parameter.
AcceptsString(p, s) == parse_option(p, s).error.exc = "none"

AcceptsValue(p, v) ==
  IF p.kind = "enum" THEN AcceptsString(p, v)
  ELSE \A i \in DOMAIN v : AcceptsString(p, v[i])

\* The strings of an option parameter that a reader which came to its end
\* has read are all options of the parameter.
ReadOptionsAreValid ==
  /\ \A k \in OptionIndices(AllGlobalParameters) :
       AllGlobalParameters[k].key \in DOMAIN r_ins.global
         => AcceptsValue(AllGlobalParameters[k],
                         r_ins.global[AllGlobalParameters[k].key])
  /\ \A i \in DOMAIN r_hfts : \A k \in OptionIndices(HftParameters) :
       (/\ is_selected(HftParameters[k], r_hfts[i])
        /\ find_hft_parameter(r_ins, r_ins.hft[i], HftParameters[k].key, FALSE).found)
         => AcceptsValue(HftParameters[k],
                         find_hft_parameter(r_ins, r_ins.hft[i],
                                            HftParameters[k].key, FALSE).value)

\* C21: a string that the reader reads for an option parameter and that
\* matches none of its options, whatever the case of the letters, ends the
\* construction with invalid_option; the options the exception lists are
\* exactly those the reader accepts for the key; and there are neither
\* parameters nor HFTs afterwards.
C21_InvalidOptionListsWhatIsAccepted ==
  /\ r_step = "done" => ReadOptionsAreValid
  /\ (r_step = "failed" /\ r_error.exc = "invalid_option") =>
       /\ ~AcceptsString(ParameterOf(r_error.key), r_error.value)
       /\ \A s \in Strings \cup {"Bogus", ""} :
            AcceptsString(ParameterOf(r_error.key), s)
              <=> \E o \in r_error.valid_options : lowercase(s) = lowercase(o)
       /\ r_params = << >> /\ r_hfts = << >>

\* The second string of an array of an HFT is no option.
C21_Witness ==
  /\ r_step = "failed" /\ r_error.exc = "invalid_option"
  /\ r_error.key = "expenditure.components" /\ r_error.value = "Bogus"
  /\ Len(r_ins.hft[1]["expenditure.components"]) = 2
  /\ r_error.valid_options = {"Allometric", "Taylor1981", "Thermoregulation", "Zhu2018"}

\* An option in capital letters is accepted.
C21_CapitalsWitness ==
  /\ r_step = "done"
  /\ r_ins.global["output.interval"] = "DECADAL"
  /\ r_params["output.interval"] = "Decadal"

\* The groups of the file with the name, and the first of them.
GroupsNamed(ins, name) ==
  {i \in DOMAIN ins.group : "name" \in DOMAIN ins.group[i] /\ ins.group[i]["name"] = name}

FirstGroupNamed(ins, name) ==
  ins.group[CHOOSE i \in GroupsNamed(ins, name) : \A j \in GroupsNamed(ins, name) : i <= j]

GroupsOf(table) == IF "groups" \in DOMAIN table THEN table["groups"] ELSE << >>

\* The search for the group meets a group table without a name before it
\* meets the group.
MeetsNameless(ins, name) ==
  \E i \in DOMAIN ins.group :
    /\ "name" \notin DOMAIN ins.group[i]
    /\ \A j \in GroupsNamed(ins, name) : i < j

\* The entry of the array of groups at which the search ends: the group
\* does not exist or defines the key.
EndsSearch(ins, groups, i, key) ==
  \/ GroupsNamed(ins, groups[i]) = {}
  \/ key \in DOMAIN FirstGroupNamed(ins, groups[i])

FirstEnd(ins, groups, key) ==
  CHOOSE i \in DOMAIN groups :
    /\ EndsSearch(ins, groups, i, key)
    /\ \A j \in 1..(i - 1) : ~EndsSearch(ins, groups, j, key)

\* What the search is to give for the key, as the claim states it.
SearchAsStated(ins, table, key, mandatory, r) ==
  IF key \in DOMAIN table
  THEN r.exc = "none" /\ r.found /\ r.value = table[key]
  ELSE IF \E i \in DOMAIN GroupsOf(table) : EndsSearch(ins, GroupsOf(table), i, key)
  THEN IF GroupsNamed(ins, GroupsOf(table)[FirstEnd(ins, GroupsOf(table), key)]) = {}
       THEN r.exc = "missing_group"
       ELSE /\ r.exc = "none" /\ r.found
            /\ r.value = FirstGroupNamed(ins, GroupsOf(table)[FirstEnd(ins, GroupsOf(table), key)])[key]
  ELSE IF mandatory THEN r.exc = "missing_hft_parameter" /\ r.name = key
  ELSE r.exc = "none" /\ ~r.found

\* The same with a group table without a name: the entries of the array
\* are looked up in order up to the one that ends the search, and a lookup
\* that meets a group table without a name fails with a missing-parameter
\* error for group.name.
RECURSIVE SearchAmended(_, _, _, _, _, _)
SearchAmended(ins, groups, i, key, mandatory, r) ==
  IF i > Len(groups)
  THEN IF mandatory THEN r.exc = "missing_hft_parameter" /\ r.name = key
       ELSE r.exc = "none" /\ ~r.found
  ELSE IF MeetsNameless(ins, groups[i])
  THEN r.exc = "missing_parameter" /\ r.name = "group.name"
  ELSE IF GroupsNamed(ins, groups[i]) = {} THEN r.exc = "missing_group"
  ELSE IF key \in DOMAIN FirstGroupNamed(ins, groups[i])
  THEN r.exc = "none" /\ r.found /\ r.value = FirstGroupNamed(ins, groups[i])[key]
  ELSE SearchAmended(ins, groups, i + 1, key, mandatory, r)

\* C22 (as stated): the search functions give the value of the HFT's own
\* table, otherwise that of the first group of the HFT's groups that
\* defines the key, a missing-group error at a group that does not exist,
\* and otherwise a missing-parameter error or, if the key is not
\* mandatory, an empty value.
C22_SearchAsStated ==
  r_found.op # "none" =>
    SearchAsStated(r_ins, r_ins.hft[1], r_found.key, r_found.mandatory, r_found.result)

\* C22 (amended): as stated, except that a lookup of a group that meets a
\* group table without a name before the group fails with a
\* missing-parameter error for group.name.
C22_SearchAmended ==
  r_found.op # "none" =>
    IF r_found.key \in DOMAIN r_ins.hft[1]
    THEN /\ r_found.result.exc = "none" /\ r_found.result.found
         /\ r_found.result.value = r_ins.hft[1][r_found.key]
    ELSE SearchAmended(r_ins, GroupsOf(r_ins.hft[1]), 1, r_found.key,
                       r_found.mandatory, r_found.result)

\* The value comes from the second group of the array, which is the first
\* that defines the key.
C22_Witness ==
  /\ r_found.op = "find_hft_parameter" /\ r_found.key = "body_mass.male"
  /\ "body_mass.male" \notin DOMAIN r_ins.hft[1]
  /\ GroupsOf(r_ins.hft[1]) = <<"g1", "g2">>
  /\ \A i \in DOMAIN r_ins.group : "name" \in DOMAIN r_ins.group[i]
  /\ r_found.result.found /\ r_found.result.value = 3

\* A group of the array does not exist.
C22_MissingGroupWitness ==
  /\ r_found.op = "find_hft_array_parameter"
  /\ GroupsOf(r_ins.hft[1]) = <<"g1", "gX">>
  /\ r_found.result.exc = "missing_group" /\ r_found.result.name = "gX"

\* The dependent parameters of the claim, the parameter that selects them
\* as the instruction file names it, and the option.
ClaimedDependent(key, parent, option) == [key |-> key, parent |-> parent, option |-> option]

ClaimedDependents ==
  { ClaimedDependent("digestion.fixed_fraction", "digestion.limit", "FixedFraction"),
    ClaimedDependent("digestion.allometric.coefficient", "digestion.limit", "Allometric"),
    ClaimedDependent("digestion.allometric.exponent", "digestion.limit", "Allometric"),
    ClaimedDependent("expenditure.allometric.coefficient", "expenditure.components", "Allometric"),
    ClaimedDependent("expenditure.allometric.exponent", "expenditure.components", "Allometric"),
    ClaimedDependent("life_history.lifespan", "mortality.factors", "Lifespan"),
    ClaimedDependent("mortality.adult_rate", "mortality.factors", "Background"),
    ClaimedDependent("mortality.juvenile_rate", "mortality.factors", "Background"),
    ClaimedDependent("body_fat.deviation", "mortality.factors", "StarvationIlliusOConnor2000"),
    ClaimedDependent("thermoregulation.conductance", "expenditure.components", "Thermoregulation"),
    ClaimedDependent("thermoregulation.core_temperature", "expenditure.components", "Thermoregulation") }

\* The tables in which a parameter of the HFT may stand: its own and those
\* of its groups.
TablesOf(ins, table) ==
  {table} \cup {ins.group[i] : i \in {j \in DOMAIN ins.group :
                   /\ "name" \in DOMAIN ins.group[j]
                   /\ \E g \in DOMAIN GroupsOf(table) : GroupsOf(table)[g] = ins.group[j]["name"]}}

IsAbsent(ins, table, key) == \A t \in TablesOf(ins, table) : key \notin DOMAIN t

ArrayKeys == {"expenditure.components", "mortality.factors", "hft.mortality.factors"}

\* The option is chosen under the key in the HFT or its groups.
IsChosen(ins, table, parent, option) ==
  \E t \in TablesOf(ins, table) :
    /\ parent \in DOMAIN t
    /\ IF parent \in ArrayKeys
       THEN \E i \in DOMAIN t[parent] : lowercase(t[parent][i]) = lowercase(option)
       ELSE lowercase(t[parent]) = lowercase(option)

\* C23: read_hft fails with a missing-parameter error for a dependent
\* parameter only if its option is chosen in the file and the parameter is
\* absent from the HFT and its groups, and it does fail if the option is
\* chosen and the parameter is absent.
C23_DependentRequiredIffSelected ==
  (Len(r_ins.hft) = 1 /\ "name" \in DOMAIN r_ins.hft[1] /\ r_step \in {"done", "failed"}) =>
    \A d \in ClaimedDependents :
      /\ (r_step = "failed" /\ r_error.exc = "missing_hft_parameter" /\ r_error.key = d.key)
           => (IsChosen(r_ins, r_ins.hft[1], d.parent, d.option)
               /\ IsAbsent(r_ins, r_ins.hft[1], d.key))
      /\ (IsChosen(r_ins, r_ins.hft[1], d.parent, d.option)
          /\ IsAbsent(r_ins, r_ins.hft[1], d.key))
           => r_step = "failed"


(***************************************************************************)
(* Properties of Fauna::PeriodAverage.                                     *)
(***************************************************************************)
\* The last k elements of a sequence.
LastValues(s, k) == SubSeq(s, Len(s) - k + 1, Len(s))

Mean(s) == SumSeq(s) \div Len(s)

\* The buffer of the run: the object itself or the one of the herbivore.
TheAverage ==
  IF a_op \in {"HerbivoreBase", "simulate_day"}
  THEN herb.body_condition_gestation
  ELSE a_average

\* C24: construction with count <= 0 fails with invalid_argument; with
\* count N > 0 the buffer never holds more than N values; get_average()
\* fails with logic_error when nothing has been added and after n >= 1
\* calls of add_value() it is the mean of the last min(n, N) values added;
\* the buffer of a herbivore has N = gestation_months * 30 and holds the
\* body conditions of its last min(n, N) simulated days, whose mean is what
\* get_average() gives to the reproduction model.
C24_MeanOfLastValues ==
  /\ a_op = "PeriodAverage" =>
       /\ (a_exc = "invalid_argument") = (a_average.count <= 0)
       /\ a_exc \in {"none", "invalid_argument"}
  /\ (a_op \in {"PeriodAverage", "add_value", "get_average"}
        /\ a_average.count > 0) =>
       /\ Len(a_average.values) = Min(Len(a_added), a_average.count)
       /\ a_op = "get_average" =>
            IF a_added = << >>
            THEN a_exc = "logic_error" /\ a_result = << >>
            ELSE /\ a_exc = "none"
                 /\ a_result = <<Mean(LastValues(a_added,
                                   Min(Len(a_added), a_average.count)))>>
  /\ (a_op \in {"HerbivoreBase", "simulate_day"} /\ a_exc = "none") =>
       LET p == herb.body_condition_gestation
           k == Min(Len(a_added), p.count)
       IN  /\ p.count = herb.hft.gestation_months * 30 /\ p.count > 0
           /\ Len(p.values) = k
           /\ a_added # << >> =>
                /\ PeriodAverage_get_average(p) = Mean(LastValues(a_added, k))
                /\ PeriodAverage_get_average_checked(p).exc = "none"

\* More values were added than the buffer holds and the oldest value differs
\* from the one that took its place.
C24_Witness ==
  /\ a_op = "get_average" /\ a_exc = "none"
  /\ a_average.count = 2 /\ Len(a_added) = 4
  /\ a_added[1] # a_added[3]
  /\ a_result # <<Mean(a_added)>>

\* The herbivore has been simulated for more days than its buffer holds, and
\* the body condition of its first day is no longer part of the mean.
C24_GestationWitness ==
  /\ a_op = "simulate_day" /\ a_exc = "none"
  /\ Len(a_added) > herb.body_condition_gestation.count
  /\ a_added[1] # a_added[Len(a_added)]
  /\ PeriodAverage_get_average(herb.body_condition_gestation) # Mean(a_added)


(***************************************************************************)
(* Properties of the reproduction model of Illius & O'Connor (2000).       *)
(***************************************************************************)
\* a == b within 5 % of b.
Approx5(a, b) == (IF a >= b THEN a - b ELSE b - a) * 20 <= b

YearSummed == q_season # << >> /\ q_day = DaysPerYear

\* C25: at body condition 1.0 the daily offspring densities of
\* ReprIlliusOconnor2000 summed over the 365 days of a year, and summed over
\* the days of the breeding season alone, both equal the annual maximum
\* within 5 %, also for a season that wraps around the end of the year; the
\* value of the first day of the season is below the annual maximum for a
\* season of 90 days and equals it within 5 % for a season of one day.
C25_OffspringSumsToAnnualMaximum ==
  /\ YearSummed =>
       /\ Approx5(q_sum_year, q_max)
       /\ Approx5(q_sum_season, q_max)
  /\ (q_season # << >> /\ q_season.length = 90) =>
       ReprIlliusOconnor2000_get_offspring_density(SeasonHft, q_season.start,
                                                   OPT) < q_max
  /\ (q_season # << >> /\ q_season.length = 1) =>
       Approx5(ReprIlliusOconnor2000_get_offspring_density(SeasonHft,
                 q_season.start, OPT), q_max)

\* The year of a season that wraps around the end of the year is summed.
C25_Witness ==
  /\ YearSummed
  /\ q_season.start + q_season.length > DaysPerYear
  /\ q_sum_year > 0 /\ q_sum_season > 0


(***************************************************************************)
(* Properties of Fauna::average().                                         *)
(***************************************************************************)
IsValidWeight(w) == w.kind = "finite" /\ w.v >= 0

\* Commutativity, the merge with an empty datapoint and the rejected
\* weights, once average() has been applied to a and b in both orders.
AverageAsStated ==
  g_average # << >> =>
    /\ g_average[1] = g_average[2]
    /\ (g_average[1].exc = "invalid_argument") =
         (\/ ~IsValidWeight(g_a.weight) \/ ~IsValidWeight(g_b.weight)
          \/ g_a.weight.v + g_b.weight.v = 0)
    /\ g_average[1].exc \in {"none", "invalid_argument"}
    /\ g_average[1].exc = "none" =>
         LET wa == g_a.weight.v
             wb == g_b.weight.v
             r  == g_average[1].value[1]
         IN  /\ r.n * g_a.value.d * g_b.value.d * (wa + wb) =
                  r.d * (g_a.value.n * wa * g_b.value.d
                           + g_b.value.n * wb * g_a.value.d)
             /\ (wb = 0 /\ wa > 0) => r = g_a.value

BothGrouped == g_left # << >> /\ g_right # << >>

\* No merge of two datapoints that both have the weight 0.
NoEmptyPairMerged ==
  /\ g_a.weight.v + g_b.weight.v > 0
  /\ g_b.weight.v + g_c.weight.v > 0

AllWeightsValid ==
  /\ IsValidWeight(g_a.weight) /\ IsValidWeight(g_b.weight)
  /\ IsValidWeight(g_c.weight)

Foraged(e) == e.op \in {"get_forage_demands", "eat"}

\* C27: in a tick every herbivore that is asked for its forage demand or
\* fed has had simulate_day() called in that tick before, the cohorts of
\* the offspring created in the tick included, and no such call fails with
\* the logic_error of get_today() ("Current day not yet initialized").
C27_ForagersHaveBeenSimulated ==
  \A i \in DOMAIN TickLog :
    Foraged(TickLog[i]) =>
      /\ TickLog[i].exc # "logic_error"
      /\ \E j \in 1..(i - 1) : /\ TickLog[j].op = "simulate_day"
                               /\ TickLog[j].cohort = TickLog[i].cohort

\* C28: every call of Simulator::simulate_day with a valid day,
\* do_herbivores = true and a non-empty list of HFTs returns.
C28_SimulateDayReturns ==
  (s_last.outcome # "none" /\ s_last.do_herbivores /\ s_hftlist_size > 0) =>
    s_last.outcome \in {"returned", "invalid_argument"}


(***************************************************************************)
(* Properties of Framework::run.                                           *)
(***************************************************************************)
\* C29: for every accepted general.years (>= 1) run() calls simulate_day
\* for the days 0..364 of the years 0, 1, ... in order, years * 365 times
\* if no call throws, returns true then, and evaluates no quotient or
\* remainder by zero in its progress report.
C29_RunSimulatesEveryDay ==
  /\ f_pc = "read_instruction_file" \/ f_pc = "idle" \/ f_nyears >= 1
       \/ f_pc = "returned_false"
  /\ f_calls > 0 =>
       f_last_date = [day |-> (f_calls - 1) % 365,
                      year |-> (f_calls - 1) \div 365]
  /\ f_calls <= f_nyears * 365 \/ f_nyears < 1
  /\ f_pc = "returned_true" => f_calls = f_nyears * 365
  /\ f_pc # "crashed"
  /\ ~f_by_zero


(***************************************************************************)
(* Properties of the copies of a herbivore.                                *)
(***************************************************************************)
\* C30: a herbivore made by the copy constructor or by the copy assignment
\* has the age, sex, HFT, energy budget, nitrogen, current day and record
\* of the body condition of its source, and the same simulate_day() calls
\* on both give the same offspring and the same mortality.
C30_CopyIsEquivalent ==
  /\ c_op \in {"copy", "assign"} =>
       /\ c_copy.age_days = herb.age_days
       /\ c_copy.sex = herb.sex
       /\ c_copy.hft = herb.hft
       /\ c_copy.energy_budget = herb.energy_budget
       /\ c_copy.nitrogen = herb.nitrogen
       /\ c_copy.today = herb.today
       /\ c_copy.body_condition_gestation = herb.body_condition_gestation
  /\ c_op = "both" =>
       /\ c_exc = h_exc
       /\ c_offspring = h_offspring
       /\ c_mortality = h_arg

\* What does hold: the members both operations copy.
CopiedMembersAgree ==
  c_op \in {"copy", "assign"} =>
    /\ c_copy.age_days = herb.age_days
    /\ c_copy.sex = herb.sex
    /\ c_copy.hft = herb.hft
    /\ c_copy.energy_budget = herb.energy_budget
    /\ c_copy.nitrogen = herb.nitrogen
    /\ c_copy.ind_per_km2 = herb.ind_per_km2
    /\ c_op = "assign" =>
         c_copy.body_condition_gestation = herb.body_condition_gestation

\* A copy gave other offspring than its original on the same day.
CopyGaveOtherOffspring ==
  c_op = "both" /\ c_exc = "none" /\ h_exc = "none"
    /\ c_offspring # h_offspring

====
